---- MODULE Spec2Model ----
(***************************************************************************)
(* A model of the Kusto notebook extension's execution engine              *)
(* (KernelPerConnection.executeCell and its fan-out), of the controller    *)
(* registry (registerController, the connection-changed handler), of the   *)
(* connection-identity codec (encodeConnectionInfo / decodeConnectionInfo) *)
(* and the connection recognizers, and of the pure computations of the     *)
(* failure classification, getChartType and generateSunburstChart.         *)
(*                                                                         *)
(* The specifications share the module's variables:                        *)
(*   Spec          the execution engine    (pc, task, token, outputs, ...) *)
(*   SpecRegistry  the controller registry (registeredControllers, ...)    *)
(*   SpecCodec     the codec, recognizers  (connectionInfo, ...)           *)
(*   SpecClassify  the catch block         (arg, result, applied)          *)
(*   SpecChart     getChartType            (arg, result, applied)          *)
(*   SpecSunburst  generateSunburstChart   (arg, result, applied)          *)
(*   SpecPie       renderChart, pie        (arg, result, applied)          *)
(*   SpecTime      renderChart, time       (arg, result, applied)          *)
(*   SpecAuth      getKustoClient          (arg, result, applied)          *)
(*   SpecLateCancel   Spec with tokens that may fire after executeCell     *)
(*   SpecActivation   KernelProvider.register, then SpecRegistry's steps   *)
(* Each leaves the other groups of variables at their initial value.       *)
(***************************************************************************)
EXTENDS Integers, Sequences, FiniteSets, TLC

VARIABLES
    pc,         \* per cell: where its executeCell invocation stands
    task,       \* per cell: the NotebookCellExecution created for it
    token,      \* per cell: task.token.isCancellationRequested
    lateCancel, \* the cells whose token fired after their invocation had left executeCell
    outputs,    \* per cell: the cell's output artifacts, as the host shows them
    query,      \* per cell: the promise returned by client.execute
    fanout,     \* the Promise.all of the current execute / executeInteractive
    registeredControllers,  \* the live controllers (the module-level array)
    allControllers,         \* every KernelPerConnection constructed so far
    disposed,               \* the constructed controllers whose dispose() ran
    returned,               \* what the last registerController call returned
    removed,                \* the controllers the last connection-changed event removed
    connectionInfo,         \* codec: the ConnectionInfo under test
    reordered,              \* codec: the same properties, inserted in another order
    encodedToken,           \* codec: encodeConnectionInfo(connectionInfo)
    reorderedToken,         \* codec: encodeConnectionInfo(reordered)
    decodedInfo,            \* codec: the result of decodeConnectionInfo
    inputToken,             \* codec: the token decodeConnectionInfo was given
    claimedBy,              \* codec: the tags whose recognizer claimed connectionInfo
    arg,                    \* pure functions: the input under test
    result,                 \* pure functions: what the function returned
    applied,                \* pure functions: the function applied, "none" before
    codecPc                 \* codec: "idle", "input", "encoded", "decoded", "foreign", "recognized"

execVars == <<pc, task, token, lateCancel, outputs, query, fanout>>

registryVars == <<registeredControllers, allControllers, disposed, returned, removed>>

codecVars == <<connectionInfo, reordered, encodedToken, reorderedToken, decodedInfo, inputToken, claimedBy, codecPc>>

pureVars == <<arg, result, applied>>

vars == <<execVars, registryVars, codecVars, pureVars>>

(***************************************************************************)
(* Bounds                                                                  *)
(***************************************************************************)
NumCells == 2

\* The number of KernelPerConnection objects constructed in a run.
MaxControllers == 2

\* The length of the property values the codec is applied to.
MaxStrLen == 1

\* The number of rows of the generated primary tables a sunburst is built from.
MaxRows == 2

Cells == 1 .. NumCells

\* JavaScript's undefined, for optional string-valued properties.
Undefined == "<undefined>"

\* JavaScript truthiness of a string-or-undefined value.
Truthy(s) == s # Undefined /\ s # ""

(***************************************************************************)
(* Tabular responses (KustoResponseDataSet) and chart classification       *)
(***************************************************************************)
\* A cell value of a row: a JavaScript string, number, null or undefined.
Str(s) == [t |-> "string", v |-> s]
Num(s) == [t |-> "number", v |-> s]
Null == [t |-> "null", v |-> "null"]
Undef == [t |-> "undefined", v |-> Undefined]

\* rows[0][i] of a JavaScript array: undefined past its end.
At(row, i) == IF i + 1 <= Len(row) THEN row[i + 1] ELSE Undef

MetaPie == "{\"Visualization\":\"piechart\",\"Title\":\"T\"}"
MetaPieNullTitle == "{\"Visualization\":\"piechart\",\"Title\":null}"
MetaBar == "{\"Visualization\":\"barchart\",\"Title\":\"T\"}"
MetaColumn == "{\"Visualization\":\"columnchart\"}"
MetaTime == "{\"Visualization\":\"timechart\",\"Title\":\"T\"}"
MetaLine == "{\"Visualization\":\"linechart\",\"Title\":\"\"}"
MetaTable == "{\"Visualization\":\"table\",\"Title\":\"T\"}"
MetaNoViz == "{\"Title\":\"T\"}"

\* What JSON.parse yields on the JSON texts the model uses: the object's
\* Visualization and Title properties (Undefined when absent or null).
JsonObjects ==
    [x \in {MetaPie, MetaPieNullTitle, MetaBar, MetaColumn, MetaTime, MetaLine,
            MetaTable, MetaNoViz} |->
        CASE x = MetaPie -> [Visualization |-> "piechart", Title |-> "T"]
          [] x = MetaPieNullTitle -> [Visualization |-> "piechart", Title |-> Undefined]
          [] x = MetaBar -> [Visualization |-> "barchart", Title |-> "T"]
          [] x = MetaColumn -> [Visualization |-> "columnchart", Title |-> Undefined]
          [] x = MetaTime -> [Visualization |-> "timechart", Title |-> "T"]
          [] x = MetaLine -> [Visualization |-> "linechart", Title |-> ""]
          [] x = MetaTable -> [Visualization |-> "table", Title |-> "T"]
          [] x = MetaNoViz -> [Visualization |-> Undefined, Title |-> "T"]]

\* JSON texts of values that are not objects, with the truthiness of the value.
JsonScalars ==
    [x \in {"5", "0", "null", "true", "\"piechart\"", "[]"} |-> x \notin {"0", "null"}]

\* A text that is not JSON although it names a visualization.
NotJson == "Visualization=piechart"

\* Strings s for which s.includes('Visualization') holds.
IncludesVisualization(s) ==
    s \in (DOMAIN JsonObjects \ {MetaNoViz}) \cup {"Visualization", NotJson}

\* JSON.parse(cell): threw (a SyntaxError), or the parsed value: whether it is
\* truthy, and its Visualization and Title properties.
JSONparse(cell) ==
    CASE cell.t = "undefined" ->
            [threw |-> TRUE, truthy |-> FALSE, Visualization |-> Undefined, Title |-> Undefined]
      [] cell.t = "null" ->
            [threw |-> FALSE, truthy |-> FALSE, Visualization |-> Undefined, Title |-> Undefined]
      [] cell.t = "number" ->
            [threw |-> FALSE, truthy |-> cell.v # "0", Visualization |-> Undefined,
             Title |-> Undefined]
      [] cell.t = "string" /\ cell.v \in DOMAIN JsonObjects ->
            [threw |-> FALSE, truthy |-> TRUE,
             Visualization |-> JsonObjects[cell.v].Visualization,
             Title |-> JsonObjects[cell.v].Title]
      [] cell.t = "string" /\ cell.v \in DOMAIN JsonScalars ->
            [threw |-> FALSE, truthy |-> JsonScalars[cell.v], Visualization |-> Undefined,
             Title |-> Undefined]
      [] OTHER ->
            [threw |-> TRUE, truthy |-> FALSE, Visualization |-> Undefined, Title |-> Undefined]

\* The decision none (getChartType returns undefined).
NoChart == [threw |-> FALSE, type |-> "none", title |-> "", orientation |-> ""]

\* getChartType raised a TypeError instead of returning.
ChartThrew == [threw |-> TRUE, type |-> "none", title |-> "", orientation |-> ""]

\* A chart decision.
Chart(type, title, orientation) ==
    [threw |-> FALSE, type |-> type, title |-> title, orientation |-> orientation]

\* rows[0] when the first element of the table's data is null or undefined.
MissingRow == <<[t |-> "missing", v |-> Undefined]>>

\* data.Title || ''
TitleOf(data) == IF Truthy(data.Title) THEN data.Title ELSE ""

\* results.tables.find((item) => item.name === name): the first such table.
FindTable(tables, name) ==
    LET idx == {i \in 1 .. Len(tables) : tables[i].name = name}
    IN  IF idx = {} THEN <<>>
        ELSE <<tables[CHOOSE i \in idx : \A j \in idx : i <= j]>>

\* Lines 167-183: the decision for the metadata object data.
ChartOf(data) ==
    CASE data.Visualization = "piechart" -> Chart("pie", TitleOf(data), "")
      [] data.Visualization = "barchart" -> Chart("bar", TitleOf(data), "h")
      [] data.Visualization \in {"timechart", "linechart"} -> Chart("time", TitleOf(data), "")
      [] data.Visualization = "columnchart" -> Chart("bar", TitleOf(data), "v")
      [] OTHER -> NoChart

\* Lines 148-154: the first row is taken for a visualization row.
IsVisualizationRow(r0) ==
    \/ At(r0, 1) = Str("Visualization")
    \/ At(r0, 0).t = "string" /\ IncludesVisualization(At(r0, 0).v)

\* getChartType(results). rows is what lines 122-138 yield; reading a column
\* of a missing first row, or the length of tables when it is undefined,
\* raises a TypeError.
getChartType(results) ==
    IF ~results.hasTables THEN ChartThrew
    ELSE IF Len(results.tables) = 0 THEN NoChart
    ELSE LET found == FindTable(results.tables, "@ExtendedProperties")
         IN  IF found = <<>> THEN NoChart
             ELSE LET rows == found[1].rows
                  IN  IF Len(rows) = 0 THEN NoChart
                      ELSE IF rows[1] = MissingRow THEN ChartThrew
                      ELSE LET r0 == rows[1]
                               first == JSONparse(At(r0, 2))
                               second == JSONparse(At(r0, 0))
                               data == IF ~first.threw /\ first.truthy THEN first ELSE second
                           IN  IF ~IsVisualizationRow(r0) THEN NoChart
                               ELSE IF data.threw \/ ~data.truthy THEN NoChart
                               ELSE ChartOf(data)

\* A table of a response: its name and its rows (arrays of cell values).
Table(name, rows) == [name |-> name, rows |-> rows]

PrimaryTable == Table("PrimaryResult", <<<<Str("A"), Num("3")>>, <<Str("B"), Num("5")>>>>)
InfoTable == Table("QueryCompletionInformation", <<<<Num("0"), Str("done")>>>>)
PropsTable(meta) == Table("@ExtendedProperties", <<<<Num("1"), Str("Visualization"), Str(meta)>>>>)

\* A response: tables / tableNames / primaryResults, each either an array
\* (has... = TRUE) or undefined.
Response(hasTables, tables, hasNames, names, hasPrimary, primary) ==
    [hasTables |-> hasTables, tables |-> tables,
     hasTableNames |-> hasNames, tableNames |-> names,
     hasPrimaryResults |-> hasPrimary, primaryResults |-> primary]

\* The responses client.execute resolves with in the model.
RespPlain ==
    Response(TRUE, <<PrimaryTable, InfoTable>>,
             TRUE, <<"PrimaryResult", "QueryCompletionInformation">>,
             TRUE, <<>>)
RespPie ==
    Response(TRUE, <<PropsTable(MetaPie), PrimaryTable>>,
             TRUE, <<"@ExtendedProperties", "PrimaryResult">>,
             FALSE, <<>>)
RespNoTables ==
    Response(FALSE, <<>>, FALSE, <<>>, FALSE, <<>>)
\* A response whose primaryResults the client library has already separated.
RespPrimaryGiven ==
    Response(TRUE, <<PrimaryTable, InfoTable>>,
             TRUE, <<"PrimaryResult", "QueryCompletionInformation">>,
             TRUE, <<PrimaryTable>>)

Responses == {RespPlain, RespPie, RespNoTables, RespPrimaryGiven}

\* Mutant: primaryResults is reconstructed but tables and tableNames are left
\* as they arrived.
NormalizeResultsKeepsTables(results) ==
    IF ~results.hasTables \/ ~results.hasTableNames
      THEN [threw |-> TRUE, results |-> results, chartType |-> NoChart]
    ELSE [threw |-> FALSE,
          results |->
              [results EXCEPT
                  !.hasPrimaryResults = TRUE,
                  !.primaryResults =
                      IF ~results.hasPrimaryResults \/ Len(results.primaryResults) = 0
                        THEN SelectSeq(results.tables, LAMBDA t : t.name = "PrimaryResult")
                      ELSE @],
          chartType |-> getChartType(results)]

\* Lines 160-165 of executeCell: the reconciliation of primaryResults with
\* tables / tableNames and the chart decision. threw: a TypeError was raised
\* (a property that is not an array was dereferenced).
NormalizeResults(results) ==
    LET IsPrimary(t) == t.name = "PrimaryResult"
        NotPrimary(t) == t.name # "PrimaryResult"
        NotPrimaryName(n) == n # "PrimaryResult"
        needsPrimary == ~results.hasPrimaryResults \/ Len(results.primaryResults) = 0
    IN  IF ~results.hasTables \/ ~results.hasTableNames \/ getChartType(results).threw
          THEN [threw |-> TRUE, results |-> results, chartType |-> NoChart]
        ELSE [threw |-> FALSE,
              results |->
                  [results EXCEPT
                      !.hasPrimaryResults = TRUE,
                      !.primaryResults =
                          IF needsPrimary THEN SelectSeq(results.tables, IsPrimary) ELSE @,
                      !.tables = SelectSeq(results.tables, NotPrimary),
                      !.tableNames = SelectSeq(results.tableNames, NotPrimaryName)],
              chartType |-> getChartType(results)]

\* Line 168: chartType && chartType !== 'table'
IsViz(chartType) == chartType.type # "none"

MimeViz == "application/vnd.kusto.result.viz+json"
MimeResult == "application/vnd.kusto.result+json"
MimeError == "application/vnd.code.notebook.error"

(***************************************************************************)
(* Failure classification (the catch block of executeCell)                 *)
(***************************************************************************)
\* A thrown value ex. isObject: ex && typeof ex === 'object'. hasResponse:
\* 'response' in ex && ex.response && typeof ex.response === 'object'; status is
\* response.status (0: absent); hasDataError: response.data?.error is truthy,
\* with atMessage = error['@message'] and errMessage = error.message;
\* dataMessage = response.data?.message. isError: ex instanceof Error, with
\* name and message. hasMessage: 'message' in ex; innerMessage =
\* ex.innererror?.message.
Thrown(isObject, hasResponse, status, hasDataError, atMessage, errMessage, dataMessage, isError, name, hasMessage, message, innerMessage) ==
    [isObject |-> isObject, hasResponse |-> hasResponse, status |-> status,
     hasDataError |-> hasDataError, atMessage |-> atMessage, errMessage |-> errMessage,
     dataMessage |-> dataMessage, isError |-> isError, name |-> name,
     hasMessage |-> hasMessage, message |-> message, innerMessage |-> innerMessage]

HttpError(status, hasDataError, atMessage, errMessage, dataMessage) ==
    Thrown(TRUE, TRUE, status, hasDataError, atMessage, errMessage, dataMessage,
           TRUE, "AxiosError", TRUE, "Request failed", Undefined)
StdError(name, message) ==
    Thrown(TRUE, FALSE, 0, FALSE, Undefined, Undefined, Undefined,
           TRUE, name, TRUE, message, Undefined)
EngineError(message, innerMessage) ==
    Thrown(TRUE, FALSE, 0, FALSE, Undefined, Undefined, Undefined,
           FALSE, Undefined, TRUE, message, innerMessage)
\* The TypeError raised by dereferencing undefined during normalization.
NormalizationError == StdError("TypeError", "Cannot read properties of undefined")

\* The rejections of client.execute in the model.
QueryErrors ==
    {HttpError(401, FALSE, Undefined, Undefined, Undefined),
     StdError("Error", "socket hang up"),
     EngineError("Request is invalid", "Unknown table")}

DefaultErrorMessage == "Failed to execute query"
DefaultErrorName == "Query Error"

\* `${x}` of a string-or-undefined value.
Template(s) == IF s = Undefined THEN "undefined" ELSE s

\* Mutant: the standard-Error branch is tried before the HTTP branch.
ClassifyErrorStandardFirst(ex) ==
    IF ex.isObject /\ ex.isError THEN [name |-> ex.name, message |-> ex.message]
    ELSE [name |-> IF ex.status = 400 THEN "Invalid Query" ELSE DefaultErrorName,
          message |-> DefaultErrorMessage]

\* Lines 176-206: the {name, message} of the error artifact for a thrown ex.
ClassifyError(ex) ==
    IF ~ex.isObject THEN [name |-> DefaultErrorName, message |-> DefaultErrorMessage]
    ELSE IF ex.hasResponse
      THEN [message |->
                IF ex.hasDataError
                  THEN IF Truthy(ex.atMessage) THEN ex.atMessage
                       ELSE IF Truthy(ex.errMessage) THEN ex.errMessage
                       ELSE DefaultErrorMessage
                ELSE IF Truthy(ex.dataMessage) THEN ex.dataMessage
                ELSE DefaultErrorMessage,
            name |->
                IF ex.status = 400 THEN "Invalid Query"
                ELSE IF ex.status = 401 \/ ex.status = 403 THEN "Authentication Error"
                ELSE IF ex.status = 408 \/ ex.status = 504 THEN "Query Timeout"
                ELSE IF ex.status >= 500 THEN "Server Error"
                ELSE DefaultErrorName]
    ELSE IF ex.isError THEN [name |-> ex.name, message |-> ex.message]
    ELSE IF ex.hasMessage
      THEN [name |-> DefaultErrorName,
            message |->
                Template(ex.message)
                \o (IF Truthy(ex.innerMessage) THEN " (" \o ex.innerMessage \o ")" ELSE "")]
    ELSE [name |-> DefaultErrorName, message |-> DefaultErrorMessage]

(***************************************************************************)
(* Connection identity: encodeConnectionInfo / decodeConnectionInfo        *)
(*                                                                         *)
(* A JavaScript string is the sequence of its UTF-16 code units; an object *)
(* is the sequence of its own properties in insertion order.               *)
(***************************************************************************)
\* Code units of the characters the model writes.
Code ==
    [ch \in {"a", "b", "c", "d", "e", "i", "l", "m", "n", "o", "p", "r", "s", "t", "u",
             "y", "z", "A", "D", "I", "N", "h", "k", "q", "g", "v", "w", "-", ".", "_", "{", "}", ":",
             ",", "\"", "\\"} |->
        CASE ch = "a" -> 97 [] ch = "b" -> 98 [] ch = "c" -> 99 [] ch = "d" -> 100
          [] ch = "e" -> 101 [] ch = "i" -> 105 [] ch = "l" -> 108 [] ch = "m" -> 109
          [] ch = "n" -> 110 [] ch = "o" -> 111 [] ch = "p" -> 112 [] ch = "r" -> 114
          [] ch = "s" -> 115 [] ch = "t" -> 116 [] ch = "u" -> 117 [] ch = "y" -> 121
          [] ch = "z" -> 122 [] ch = "A" -> 65 [] ch = "D" -> 68 [] ch = "I" -> 73
          [] ch = "N" -> 78 [] ch = "h" -> 104 [] ch = "k" -> 107 [] ch = "q" -> 113
          [] ch = "g" -> 103 [] ch = "v" -> 118 [] ch = "w" -> 119
          [] ch = "-" -> 45 [] ch = "." -> 46 [] ch = "_" -> 95 [] ch = "{" -> 123
          [] ch = "}" -> 125 [] ch = ":" -> 58 [] ch = "," -> 44 [] ch = "\"" -> 34
          [] ch = "\\" -> 92]

\* The string spelled by a tuple of characters.
S(chars) == [i \in 1 .. Len(chars) |-> Code[chars[i]]]

\* U+00E9 and U+20AC: characters of two and three UTF-8 bytes.
EAcute == 233
EuroSign == 8364

\* Lexicographic order on code units: the default order of Array.prototype.sort.
RECURSIVE StrLess(_, _)
StrLess(a, b) ==
    IF b = <<>> THEN FALSE
    ELSE IF a = <<>> THEN TRUE
    ELSE IF Head(a) # Head(b) THEN Head(a) < Head(b)
    ELSE StrLess(Tail(a), Tail(b))

\* An own property: its key and its value, a string or undefined.
Prop(key, value) == [key |-> key, defined |-> TRUE, value |-> value]
PropUndefined(key) == [key |-> key, defined |-> FALSE, value |-> <<>>]

\* Object.keys(obj)
ObjectKeys(obj) == [i \in 1 .. Len(obj) |-> obj[i].key]

HasKey(obj, key) == \E i \in 1 .. Len(obj) : obj[i].key = key

\* obj[key]: the property, PropUndefined when there is none.
Get(obj, key) ==
    IF HasKey(obj, key)
      THEN obj[CHOOSE i \in 1 .. Len(obj) : obj[i].key = key]
    ELSE PropUndefined(key)

\* Mutant: the keys are left in insertion order.
SortKeysUnsorted(keys) == keys

\* keys.sort(): insertion into an ascending sequence.
RECURSIVE SortKeys(_)
SortKeys(keys) ==
    IF keys = <<>> THEN <<>>
    ELSE LET rest == SortKeys(Tail(keys))
             before == SelectSeq(rest, LAMBDA k : ~StrLess(Head(keys), k))
             after == SelectSeq(rest, LAMBDA k : StrLess(Head(keys), k))
         IN  before \o <<Head(keys)>> \o after

\* The JSON string literal of s: quotes and backslashes escaped.
RECURSIVE JsonEscape(_)
JsonEscape(s) ==
    IF s = <<>> THEN <<>>
    ELSE (IF Head(s) \in {34, 92} THEN <<92, Head(s)>> ELSE <<Head(s)>>)
         \o JsonEscape(Tail(s))

JsonQuote(s) == <<34>> \o JsonEscape(s) \o <<34>>

\* The members JSON.stringify writes for the listed keys: in their order, a key
\* once, properties that are absent or undefined left out.
RECURSIVE JsonMembers(_, _, _)
JsonMembers(obj, keys, first) ==
    IF keys = <<>> THEN <<>>
    ELSE LET k == Head(keys)
             p == Get(obj, k)
         IN  IF p.defined
               THEN (IF first THEN <<>> ELSE <<44>>)
                    \o JsonQuote(k) \o <<58>> \o JsonQuote(p.value)
                    \o JsonMembers(obj, Tail(keys), FALSE)
             ELSE JsonMembers(obj, Tail(keys), first)

\* JSON.stringify(obj, keys) for an object of string-valued properties.
JSONstringify(obj, keys) == <<123>> \o JsonMembers(obj, keys, TRUE) \o <<125>>

\* Buffer.from(value): the UTF-8 bytes of the string.
RECURSIVE Utf8Encode(_)
Utf8Encode(s) ==
    IF s = <<>> THEN <<>>
    ELSE LET cp == Head(s)
         IN  (IF cp < 128 THEN <<cp>>
              ELSE IF cp < 2048 THEN <<192 + (cp \div 64), 128 + (cp % 64)>>
              ELSE <<224 + (cp \div 4096), 128 + ((cp \div 64) % 64), 128 + (cp % 64)>>)
             \o Utf8Encode(Tail(s))

\* buffer.toString('utf8')
RECURSIVE Utf8Decode(_)
Utf8Decode(b) ==
    IF b = <<>> THEN <<>>
    ELSE IF Head(b) < 128 THEN <<Head(b)>> \o Utf8Decode(Tail(b))
    ELSE IF Head(b) < 224 /\ Len(b) >= 2
      THEN <<(Head(b) - 192) * 64 + (b[2] - 128)>> \o Utf8Decode(SubSeq(b, 3, Len(b)))
    ELSE IF Len(b) >= 3
      THEN <<(Head(b) - 224) * 4096 + (b[2] - 128) * 64 + (b[3] - 128)>>
           \o Utf8Decode(SubSeq(b, 4, Len(b)))
    ELSE <<65533>>

\* The padding character '=' of a base64 text; the other characters are the
\* sextets 0 .. 63.
Pad == 64

\* buffer.toString('base64')
RECURSIVE Base64Encode(_)
Base64Encode(b) ==
    IF b = <<>> THEN <<>>
    ELSE IF Len(b) = 1
      THEN <<b[1] \div 4, (b[1] % 4) * 16, Pad, Pad>>
    ELSE IF Len(b) = 2
      THEN <<b[1] \div 4, (b[1] % 4) * 16 + (b[2] \div 16), (b[2] % 16) * 4, Pad>>
    ELSE <<b[1] \div 4, (b[1] % 4) * 16 + (b[2] \div 16),
           (b[2] % 16) * 4 + (b[3] \div 64), b[3] % 64>>
         \o Base64Encode(SubSeq(b, 4, Len(b)))

\* Buffer.from(base64, 'base64')
RECURSIVE Base64Decode(_)
Base64Decode(t) ==
    IF Len(t) < 2 \/ t[1] = Pad \/ t[2] = Pad THEN <<>>
    ELSE LET b1 == t[1] * 4 + (t[2] \div 16)
         IN  IF Len(t) < 3 \/ t[3] = Pad THEN <<b1>>
             ELSE LET b2 == (t[2] % 16) * 16 + (t[3] \div 4)
                  IN  IF Len(t) < 4 \/ t[4] = Pad THEN <<b1, b2>>
                      ELSE <<b1, b2, (t[3] % 4) * 64 + t[4]>>
                           \o Base64Decode(SubSeq(t, 5, Len(t)))

stringToBase64(value) == Base64Encode(Utf8Encode(value))

base64ToString(base64) == Utf8Decode(Base64Decode(base64))

\* A JSON string literal starting at text[i] (the opening quote): its value and
\* the index after the closing quote; ok = FALSE for a SyntaxError.
RECURSIVE JsonReadString(_, _, _)
JsonReadString(text, i, acc) ==
    IF i > Len(text) THEN [ok |-> FALSE, value |-> acc, next |-> i]
    ELSE IF text[i] = 34 THEN [ok |-> TRUE, value |-> acc, next |-> i + 1]
    ELSE IF text[i] = 92
      THEN IF i + 1 <= Len(text) /\ text[i + 1] \in {34, 92}
             THEN JsonReadString(text, i + 2, Append(acc, text[i + 1]))
           ELSE [ok |-> FALSE, value |-> acc, next |-> i]
    ELSE JsonReadString(text, i + 1, Append(acc, text[i]))

\* obj[key] = value: an existing property keeps its place.
SetProp(obj, key, value) ==
    IF HasKey(obj, key)
      THEN [i \in 1 .. Len(obj) |-> IF obj[i].key = key THEN Prop(key, value) ELSE obj[i]]
    ELSE Append(obj, Prop(key, value))

\* The members of a JSON object from text[i] on, after '{' or ','.
RECURSIVE JsonReadMembers(_, _, _)
JsonReadMembers(text, i, obj) ==
    IF i > Len(text) \/ text[i] # 34 THEN [ok |-> FALSE, value |-> obj]
    ELSE LET k == JsonReadString(text, i + 1, <<>>)
         IN  IF ~k.ok \/ k.next + 1 > Len(text) \/ text[k.next] # 58
                \/ text[k.next + 1] # 34
               THEN [ok |-> FALSE, value |-> obj]
             ELSE LET v == JsonReadString(text, k.next + 2, <<>>)
                      next == SetProp(obj, k.value, v.value)
                  IN  IF ~v.ok \/ v.next > Len(text) THEN [ok |-> FALSE, value |-> obj]
                      ELSE IF text[v.next] = 125
                        THEN [ok |-> v.next = Len(text), value |-> next]
                      ELSE IF text[v.next] = 44
                        THEN JsonReadMembers(text, v.next + 1, next)
                      ELSE [ok |-> FALSE, value |-> obj]

\* JSON.parse(text) for the text of an object of string-valued properties.
JSONparseObject(text) ==
    IF Len(text) < 2 \/ text[1] # 123 THEN [ok |-> FALSE, value |-> <<>>]
    ELSE IF text = <<123, 125>> THEN [ok |-> TRUE, value |-> <<>>]
    ELSE JsonReadMembers(text, 2, <<>>)

\* encodeConnectionInfo(info)
encodeConnectionInfo(info) ==
    stringToBase64(JSONstringify(info, SortKeys(ObjectKeys(info))))

\* decodeConnectionInfo(info): threw = JSON.parse raised a SyntaxError.
decodeConnectionInfo(info) ==
    LET decoded == JSONparseObject(base64ToString(info))
        encoded == encodeConnectionInfo(decoded.value)
        again == JSONparseObject(base64ToString(encoded))
    IN  IF ~decoded.ok THEN [threw |-> TRUE, value |-> <<>>]
        ELSE [threw |-> ~again.ok, value |-> again.value]

(***************************************************************************)
(* The execution engine: KernelPerConnection.execute / executeInteractive / *)
(* executeCell                                                             *)
(***************************************************************************)
\* No NotebookCellExecution exists for the cell.
NoTask ==
    [cell |-> 0, state |-> "none", startCount |-> 0, endCount |-> 0,
     success |-> FALSE, appended |-> <<>>]

\* Mutant: every execution is created against the first cell.
createNotebookCellExecutionFirstCell(cell) ==
    [cell |-> 1, state |-> "init", startCount |-> 0, endCount |-> 0,
     success |-> FALSE, appended |-> <<>>]

\* controller.createNotebookCellExecution(cell): a fresh task bound to the cell.
createNotebookCellExecution(cell) ==
    [cell |-> cell, state |-> "init", startCount |-> 0, endCount |-> 0,
     success |-> FALSE, appended |-> <<>>]

\* task.start(Date.now())
TaskStart(t) == [t EXCEPT !.state = "started", !.startCount = @ + 1]

\* task.end(success, Date.now())
TaskEnd(t, success) ==
    [t EXCEPT !.state = "ended", !.endCount = @ + 1, !.success = success]

\* task.appendOutput(output): the artifact goes to the task's own cell.
TaskAppended(t, artifact) == [t EXCEPT !.appended = Append(@, artifact)]
CellAppended(outs, t, artifact) == [outs EXCEPT ![t.cell] = Append(@, artifact)]

\* task.clearOutput()
CellCleared(outs, t) == [outs EXCEPT ![t.cell] = <<>>]

\* Mutant: the result is always tagged with the tabular content kind.
ResultArtifactAlwaysTabular(c, normalized) ==
    [mime |-> MimeResult, by |-> c, data |-> normalized.results]

\* new NotebookCellOutput([NotebookCellOutputItem.json(results, mime)]), tagged
\* with the cell whose executeCell invocation built it.
ResultArtifact(c, normalized) ==
    [mime |-> IF IsViz(normalized.chartType) THEN MimeViz ELSE MimeResult,
     by |-> c, data |-> normalized.results]

\* new NotebookCellOutput([NotebookCellOutputItem.error({message, name})])
ErrorArtifact(c, ex) == [mime |-> MimeError, by |-> c, data |-> ClassifyError(ex)]

\* createPromiseFromToken(task.token, {action: 'resolve', value: undefined}):
\* settled exactly when the token has fired.
createPromiseFromToken(tok) == IF tok THEN "resolved" ELSE "pending"

\* Mutant: the query is awaited alone, the token promise is not raced.
PromiseRaceQueryOnly(tokenPromise, queryPromise) ==
    IF queryPromise \in {"resolved", "rejected"} THEN "query" ELSE "pending"

\* Promise.race([tokenPromise, queryPromise]) at the moment the query promise
\* settles (or with it still pending): the token promise, first in the array,
\* wins whenever it is settled.
PromiseRace(tokenPromise, queryPromise) ==
    IF tokenPromise = "resolved" THEN "token"
    ELSE IF queryPromise \in {"resolved", "rejected"} THEN "query"
    ELSE "pending"

NoQuery == [state |-> "none", value |-> Undefined]

\* A cell can be handed to the controller when the host holds no execution for it.
CanExecute(c) == task[c].state \in {"none", "ended"}

\* Promise.all over the executeCell promises of the fan-out: rejected as soon as
\* one of them rejects, fulfilled when all are fulfilled.
PromiseAll(cells, pcNew) ==
    IF \E c \in cells : pcNew[c] = "rejected" THEN "rejected"
    ELSE IF \A c \in cells : pcNew[c] = "done" THEN "fulfilled"
    ELSE "pending"

FanoutSettled == \A c \in fanout.cells : pc[c] \in {"done", "rejected"}

\* cells.map((cell) => this.executeCell(...)): each invocation runs to its
\* first await (line 120) with its task created.
StartFanout(cells) ==
    /\ cells # {}
    /\ FanoutSettled
    /\ \A c \in cells : CanExecute(c)
    /\ pc' = [c \in Cells |-> IF c \in cells THEN "create" ELSE pc[c]]
    /\ task' = [c \in Cells |-> IF c \in cells THEN createNotebookCellExecution(c) ELSE task[c]]
    /\ token' = [c \in Cells |-> IF c \in cells THEN FALSE ELSE token[c]]
    /\ query' = [c \in Cells |-> IF c \in cells THEN NoQuery ELSE query[c]]
    /\ fanout' = [cells |-> cells, status |-> "pending"]
    /\ lateCancel' = lateCancel \ cells
    /\ UNCHANGED outputs
    /\ UNCHANGED <<registryVars, codecVars, pureVars>>

\* KernelPerConnection.execute(cells, notebook, controller): executeCell with
\* the controller the host passes.
Execute(cells) == StartFanout(cells)

\* KernelPerConnection.executeInteractive(cells, textDocument): executeCell with
\* this.notebookController, the text document standing in for the notebook.
ExecuteInteractive(cells) == StartFanout(cells)

Finish(c, how) ==
    /\ pc' = [pc EXCEPT ![c] = how]
    /\ fanout' = [fanout EXCEPT !.status = PromiseAll(fanout.cells, pc')]

\* await Client.create(...) rejects: the exception leaves executeCell at
\* line 120, before the try block.
ClientCreateThrows(c) ==
    /\ pc[c] = "create"
    /\ Finish(c, "rejected")
    /\ UNCHANGED <<task, token, lateCancel, outputs, query>>
    /\ UNCHANGED <<registryVars, codecVars, pureVars>>

\* await Client.create(...) yields no client: lines 121-124.
ClientCreateNone(c) ==
    /\ pc[c] = "create"
    /\ task' = [task EXCEPT ![c] = TaskEnd(@, FALSE)]
    /\ Finish(c, "done")
    /\ UNCHANGED <<token, lateCancel, outputs, query>>
    /\ UNCHANGED <<registryVars, codecVars, pureVars>>

\* await Client.create(...) yields a client: lines 125-140, up to the await of
\* the race, with the query sent.
ClientCreated(c) ==
    /\ pc[c] = "create"
    /\ task' = [task EXCEPT ![c] = TaskStart(@)]
    /\ outputs' = CellCleared(outputs, task[c])
    /\ query' = [query EXCEPT ![c] = [state |-> "pending", value |-> Undefined]]
    /\ pc' = [pc EXCEPT ![c] = "race"]
    /\ UNCHANGED <<token, lateCancel, fanout>>
    /\ UNCHANGED <<registryVars, codecVars, pureVars>>

\* The host cancels the execution: the task's token fires.
Cancel(c) ==
    /\ pc[c] \in {"create", "race"}
    /\ ~token[c]
    /\ token' = [token EXCEPT ![c] = TRUE]
    /\ UNCHANGED <<pc, task, lateCancel, outputs, query, fanout>>
    /\ UNCHANGED <<registryVars, codecVars, pureVars>>

\* The race is won by the token promise (results = undefined): lines 141-143,
\* then the finally block.
RaceCancelled(c) ==
    /\ pc[c] = "race"
    /\ PromiseRace(createPromiseFromToken(token[c]), query[c].state) = "token"
    /\ task' = [task EXCEPT ![c] = TaskEnd(@, FALSE)]
    /\ Finish(c, "done")
    /\ UNCHANGED <<token, lateCancel, outputs, query>>
    /\ UNCHANGED <<registryVars, codecVars, pureVars>>

\* Lines 141-173 and 174-212 for results that won the race: the task and the
\* cell outputs after the try / catch / finally.
AfterResults(c, t, outs, cancelled, results) ==
    LET normalized == NormalizeResults(results)
    IN  IF cancelled
          THEN [task |-> TaskEnd(t, FALSE), outputs |-> outs]
        ELSE IF normalized.threw
          THEN [task |-> TaskEnd(TaskAppended(t, ErrorArtifact(c, NormalizationError)), TRUE),
                outputs |-> CellAppended(outs, t, ErrorArtifact(c, NormalizationError))]
        ELSE [task |-> TaskEnd(TaskAppended(t, ResultArtifact(c, normalized)), TRUE),
              outputs |-> CellAppended(outs, t, ResultArtifact(c, normalized))]

\* client.execute resolves first and wins the race.
QueryResolves(c, results) ==
    /\ pc[c] = "race"
    /\ query[c].state = "pending"
    /\ PromiseRace(createPromiseFromToken(token[c]), "resolved") = "query"
    /\ query' = [query EXCEPT ![c] = [state |-> "resolved", value |-> results]]
    /\ LET after == AfterResults(c, task[c], outputs, token[c], results)
       IN  /\ task' = [task EXCEPT ![c] = after.task]
           /\ outputs' = after.outputs
    /\ Finish(c, "done")
    /\ UNCHANGED <<token, lateCancel>>
    /\ UNCHANGED <<registryVars, codecVars, pureVars>>

\* Lines 174-212 for a rejection that won the race: the catch block, then the
\* finally block with success still false.
AfterRejection(c, t, outs, ex) ==
    [task |-> TaskEnd(TaskAppended(t, ErrorArtifact(c, ex)), FALSE),
     outputs |-> CellAppended(outs, t, ErrorArtifact(c, ex))]

\* client.execute rejects first and wins the race.
QueryRejects(c, ex) ==
    /\ pc[c] = "race"
    /\ query[c].state = "pending"
    /\ PromiseRace(createPromiseFromToken(token[c]), "rejected") = "query"
    /\ query' = [query EXCEPT ![c] = [state |-> "rejected", value |-> ex]]
    /\ LET after == AfterRejection(c, task[c], outputs, ex)
       IN  /\ task' = [task EXCEPT ![c] = after.task]
           /\ outputs' = after.outputs
    /\ Finish(c, "done")
    /\ UNCHANGED <<token, lateCancel>>
    /\ UNCHANGED <<registryVars, codecVars, pureVars>>

\* Mutant: the late settlement is acted on, its value appended to the cell.
QuerySettlesLateAppends(c, how) ==
    /\ pc[c] = "done"
    /\ query[c].state = "pending"
    /\ query' = [query EXCEPT ![c] = [state |-> how, value |-> Undefined]]
    /\ task' = [task EXCEPT ![c] = TaskAppended(@, [mime |-> MimeResult, by |-> c, data |-> Undefined])]
    /\ outputs' = CellAppended(outputs, task[c], [mime |-> MimeResult, by |-> c, data |-> Undefined])
    /\ UNCHANGED <<pc, token, lateCancel, fanout>>
    /\ UNCHANGED <<registryVars, codecVars, pureVars>>

\* client.execute settles after the race was lost: nobody awaits it.
QuerySettlesLate(c, how) ==
    /\ pc[c] = "done"
    /\ query[c].state = "pending"
    /\ query' = [query EXCEPT ![c] = [state |-> how, value |-> Undefined]]
    /\ UNCHANGED <<pc, task, token, lateCancel, outputs, fanout>>
    /\ UNCHANGED <<registryVars, codecVars, pureVars>>

\* The token fires after the invocation has left executeCell. Its only
\* listener is the one of createPromiseFromToken (line 138), whose promise
\* lost or won a race that is over, and executeCell reads the token at
\* line 141 only: no code of executeCell runs.
CancelLate(c) ==
    /\ pc[c] \in {"done", "rejected"}
    /\ ~token[c]
    /\ token' = [token EXCEPT ![c] = TRUE]
    /\ lateCancel' = lateCancel \cup {c}
    /\ UNCHANGED <<pc, task, outputs, query, fanout>>
    /\ UNCHANGED <<registryVars, codecVars, pureVars>>

ExecInit ==
    /\ pc = [c \in Cells |-> "idle"]
    /\ task = [c \in Cells |-> NoTask]
    /\ token = [c \in Cells |-> FALSE]
    /\ lateCancel = {}
    /\ outputs = [c \in Cells |-> <<>>]
    /\ query = [c \in Cells |-> NoQuery]
    /\ fanout = [cells |-> {}, status |-> "fulfilled"]

ExecNext ==
    \/ \E cells \in SUBSET Cells : Execute(cells)
    \/ \E cells \in SUBSET Cells : ExecuteInteractive(cells)
    \/ \E c \in Cells : ClientCreateThrows(c)
    \/ \E c \in Cells : ClientCreateNone(c)
    \/ \E c \in Cells : ClientCreated(c)
    \/ \E c \in Cells : Cancel(c)
    \/ \E c \in Cells : RaceCancelled(c)
    \/ \E c \in Cells, results \in Responses : QueryResolves(c, results)
    \/ \E c \in Cells, ex \in QueryErrors : QueryRejects(c, ex)
    \/ \E c \in Cells, how \in {"resolved", "rejected"} : QuerySettlesLate(c, how)

(***************************************************************************)
(* The controller registry: registerController and the connection-changed  *)
(* handler                                                                 *)
(***************************************************************************)
KeyId == S(<<"i", "d">>)
KeyDisplayName == S(<<"d", "i", "s", "p", "l", "a", "y", "N", "a", "m", "e">>)
KeyType == S(<<"t", "y", "p", "e">>)
KeyCluster == S(<<"c", "l", "u", "s", "t", "e", "r">>)
KeyDatabase == S(<<"d", "a", "t", "a", "b", "a", "s", "e">>)

TypeAzAuth == S(<<"a", "z", "A", "u", "t", "h">>)
TypeAppInsights == S(<<"a", "p", "p", "I", "n", "s", "i", "g", "h", "t", "s">>)

\* AzureAuthenticatedConnection.connectionInfofrom({cluster, database}): the
\* database property is always written, undefined when none is given.
AzConnectionInfoFrom(cluster, hasDatabase, database) ==
    <<Prop(KeyCluster, cluster),
      IF hasDatabase THEN Prop(KeyDatabase, database) ELSE PropUndefined(KeyDatabase),
      Prop(KeyDisplayName, cluster),
      Prop(KeyId, cluster),
      Prop(KeyType, TypeAzAuth)>>

\* An AppInsightsConnectionInfo: id, displayName, type.
AppInsightsInfo(id) ==
    <<Prop(KeyId, id), Prop(KeyDisplayName, id), Prop(KeyType, TypeAppInsights)>>

\* The same properties inserted in the opposite order.
Reversed(obj) == [i \in 1 .. Len(obj) |-> obj[Len(obj) + 1 - i]]

ClusterA == S(<<"h", "e", "l", "p">>)
DatabaseD == S(<<"d", "b">>)
AppB == S(<<"a", "p", "p">>)

\* The connections of the model: a cluster without a database, the same
\* cluster with a database (in both insertion orders), an AppInsights app.
Connections ==
    {AzConnectionInfoFrom(ClusterA, FALSE, <<>>),
     AzConnectionInfoFrom(ClusterA, TRUE, DatabaseD),
     Reversed(AzConnectionInfoFrom(ClusterA, TRUE, DatabaseD)),
     AppInsightsInfo(AppB)}

KustoNotebook == S(<<"k", "u", "s", "t", "o", "-", "n", "o", "t", "e", "b", "o", "o", "k">>)
KustoNotebookKql ==
    S(<<"k", "u", "s", "t", "o", "-", "n", "o", "t", "e", "b", "o", "o", "k", "-", "k", "q", "l">>)
\* The view type of the interactive window (imported from ../utils).
InteractiveWindowView == S(<<"i", "n", "t", "e", "r", "a", "c", "t", "i", "v", "e">>)

NotebookTypes == {KustoNotebook, KustoNotebookKql, InteractiveWindowView}

\* encodeConnectionInfo of each connection of the model.
EncodedConnection == [connection \in Connections |-> encodeConnectionInfo(connection)]

\* getControllerId(connection, notebookType)
getControllerId(connection, notebookType) ==
    notebookType \o <<95>> \o EncodedConnection[connection]

\* new KernelPerConnection(notebookType, connection): the controller object,
\* with the id and notebookType of its notebookController.
KernelPerConnection(instance, notebookType, connection) ==
    [instance |-> instance, connection |-> connection,
     id |-> getControllerId(connection, notebookType), notebookType |-> notebookType]

\* Mutant: the registry is not consulted, every call finds nothing.
ExistingControllerNone(controllers, controllerId, notebookType) == <<>>

\* registeredControllers.find(...) of registerController: the first controller
\* with that id and notebook type, as a sequence of at most one.
ExistingController(controllers, controllerId, notebookType) ==
    LET idx == {i \in 1 .. Len(controllers) :
                   /\ controllers[i].id = controllerId
                   /\ controllers[i].notebookType = notebookType}
    IN  IF idx = {} THEN <<>>
        ELSE <<controllers[CHOOSE i \in idx : \A j \in idx : i <= j]>>

\* The number of controllers the model lets registerController construct:
\* MaxControllers, or one more than KernelProvider.register constructed at
\* activation when that is not less.
ControllerBudget ==
    IF applied = "register" /\ Len(result.all) >= MaxControllers
      THEN Len(result.all) + 1
    ELSE MaxControllers

\* registerController(notebookType, connection); returned: the instance number
\* of the controller it returns.
RegisterController(notebookType, connection) ==
    /\ UNCHANGED <<execVars, codecVars, pureVars>>
    /\ removed' = {}
    /\ LET controllerId == getControllerId(connection, notebookType)
           existing == ExistingController(registeredControllers, controllerId, notebookType)
           controller == KernelPerConnection(Len(allControllers) + 1, notebookType, connection)
       IN  IF existing # <<>>
             THEN /\ returned' = existing[1].instance
                  /\ UNCHANGED <<registeredControllers, allControllers, disposed>>
           ELSE /\ Len(allControllers) < ControllerBudget
                /\ registeredControllers' = Append(registeredControllers, controller)
                /\ allControllers' = Append(allControllers, controller)
                /\ returned' = controller.instance
                /\ UNCHANGED disposed

\* Mutant: only the first controller of the connection is selected.
ControllersToRemoveFirstOnly(controllers, connection) ==
    LET all == SelectSeq(controllers,
                         LAMBDA k : Get(k.connection, KeyId) = Get(connection, KeyId))
    IN  IF all = <<>> THEN <<>> ELSE <<Head(all)>>

\* registeredControllers.filter((controller) => controller.connection.id ===
\* connection.id)
ControllersToRemove(controllers, connection) ==
    SelectSeq(controllers, LAMBDA k : Get(k.connection, KeyId) = Get(connection, KeyId))

\* Mutant: the controller is disposed but stays in the array.
SplicedNothing(controllers, controller) == controllers

\* indexOf(controller) and splice(index, 1), when the index is not -1.
Spliced(controllers, controller) ==
    LET idx == {i \in 1 .. Len(controllers) : controllers[i] = controller}
    IN  IF idx = {} THEN controllers
        ELSE LET index == CHOOSE i \in idx : \A j \in idx : i <= j
             IN  SubSeq(controllers, 1, index - 1)
                 \o SubSeq(controllers, index + 1, Len(controllers))

\* The for loop of the handler over the controllers to remove.
RECURSIVE RemoveEach(_, _)
RemoveEach(controllers, toRemove) ==
    IF toRemove = <<>> THEN controllers
    ELSE RemoveEach(Spliced(controllers, Head(toRemove)), Tail(toRemove))

\* The onConnectionChanged handler, for the event {connection, change}; each
\* controller removed is disposed first (KernelPerConnection.dispose).
ConnectionChanged(connection, change) ==
    /\ UNCHANGED <<execVars, codecVars, pureVars>>
    /\ returned' = 0
    /\ LET toRemove == ControllersToRemove(registeredControllers, connection)
           instances == {toRemove[i].instance : i \in 1 .. Len(toRemove)}
       IN  IF change = "added"
             THEN /\ removed' = {}
                  /\ UNCHANGED <<registeredControllers, allControllers, disposed>>
           ELSE /\ disposed' = disposed \cup instances
                /\ registeredControllers' = RemoveEach(registeredControllers, toRemove)
                /\ removed' = instances
                /\ UNCHANGED allControllers

RegistryInit ==
    /\ registeredControllers = <<>>
    /\ allControllers = <<>>
    /\ disposed = {}
    /\ returned = 0
    /\ removed = {}

RegistryNext ==
    \/ \E notebookType \in NotebookTypes, connection \in Connections :
           RegisterController(notebookType, connection)
    \/ \E connection \in Connections, change \in {"added", "removed"} :
           ConnectionChanged(connection, change)

(***************************************************************************)
(* The codec applied to bounded inputs                                     *)
(***************************************************************************)
\* The characters of generated property values: a letter, the two characters
\* JSON escapes, and characters of two and three UTF-8 bytes.
ValueChars == {97, 34, 92, EAcute, EuroSign}

\* The strings over ValueChars of length at most n.
RECURSIVE StringsUpTo(_)
StringsUpTo(n) ==
    IF n = 0 THEN {<<>>}
    ELSE LET shorter == StringsUpTo(n - 1)
         IN  shorter \cup {Append(str, ch) : str \in shorter, ch \in ValueChars}

Values == StringsUpTo(MaxStrLen)

\* ConnectionInfo values of both variants: azAuth with a database, with the
\* database property undefined (as connectionInfofrom writes it) and without
\* the property; appInsights.
CodecInputs ==
    {AzConnectionInfoFrom(ClusterA, TRUE, database) : database \in Values}
    \cup {AzConnectionInfoFrom(ClusterA, FALSE, <<>>)}
    \cup {SelectSeq(AzConnectionInfoFrom(ClusterA, FALSE, <<>>),
                    LAMBDA prop : prop.key # KeyDatabase)}
    \cup {<<Prop(KeyId, AppB), Prop(KeyDisplayName, name), Prop(KeyType, TypeAppInsights)>> :
              name \in Values}

\* The orders in which the properties of obj can have been inserted.
InsertionOrders(obj) ==
    LET n == Len(obj)
        perms == {f \in [1 .. n -> 1 .. n] : \A i, j \in 1 .. n : f[i] = f[j] => i = j}
    IN  {[i \in 1 .. n |-> obj[f[i]]] : f \in perms}

CodecIdle ==
    /\ connectionInfo = <<>>
    /\ reordered = <<>>
    /\ encodedToken = <<>>
    /\ reorderedToken = <<>>
    /\ decodedInfo = [threw |-> FALSE, value |-> <<>>]
    /\ inputToken = <<>>
    /\ claimedBy = {}
    /\ codecPc = "idle"

CodecInit ==
    /\ connectionInfo \in CodecInputs
    /\ reordered \in InsertionOrders(connectionInfo)
    /\ encodedToken = <<>>
    /\ reorderedToken = <<>>
    /\ decodedInfo = [threw |-> FALSE, value |-> <<>>]
    /\ inputToken = <<>>
    /\ claimedBy = {}
    /\ codecPc = "input"

\* encodeConnectionInfo applied to both insertion orders.
Encode ==
    /\ codecPc = "input"
    /\ encodedToken' = encodeConnectionInfo(connectionInfo)
    /\ reorderedToken' = encodeConnectionInfo(reordered)
    /\ codecPc' = "encoded"
    /\ UNCHANGED <<connectionInfo, reordered, decodedInfo, inputToken, claimedBy, execVars, registryVars, pureVars>>

\* decodeConnectionInfo applied to the token.
Decode ==
    /\ codecPc = "encoded"
    /\ inputToken' = encodedToken
    /\ decodedInfo' = decodeConnectionInfo(encodedToken)
    /\ codecPc' = "decoded"
    /\ UNCHANGED <<connectionInfo, reordered, encodedToken, reorderedToken, claimedBy, execVars, registryVars, pureVars>>

\* Tokens of other encoders for obj: the JSON text with the keys in insertion
\* order, and a token cut short in transit.
ForeignTokens(obj) ==
    LET unsorted == stringToBase64(JSONstringify(obj, ObjectKeys(obj)))
    IN  {unsorted, SubSeq(unsorted, 1, Len(unsorted) - 4)}

\* decodeConnectionInfo applied to a token this encoder did not produce.
DecodeForeign ==
    /\ codecPc = "encoded"
    /\ \E foreign \in ForeignTokens(reordered) :
           /\ inputToken' = foreign
           /\ decodedInfo' = decodeConnectionInfo(foreign)
    /\ codecPc' = "foreign"
    /\ UNCHANGED <<connectionInfo, reordered, encodedToken, reorderedToken, claimedBy, execVars, registryVars, pureVars>>

\* AzureAuthenticatedConnection.connectionInfofrom(info)
connectionInfofrom(obj) ==
    AzConnectionInfoFrom(Get(obj, KeyCluster).value,
                         Get(obj, KeyDatabase).defined, Get(obj, KeyDatabase).value)

\* AppInsightsConnection.connectionInfofrom(info): an AppInsightsConnectionInfo.
AppInsightsConnectionInfoFrom(obj) == AppInsightsInfo(Get(obj, KeyId).value)

\* The recognizer registered for 'azAuth': the claimed value as a sequence of
\* one, the empty sequence for undefined.
azAuthRecognizer(obj) ==
    IF HasKey(obj, KeyCluster) THEN <<connectionInfofrom(obj)>> ELSE <<>>

\* Mutant: the recognizer claims every input.
appInsightsRecognizerAny(obj) == <<AppInsightsConnectionInfoFrom(obj)>>

\* The recognizer registered for 'appInsights'.
appInsightsRecognizer(obj) ==
    IF HasKey(obj, KeyCluster) THEN <<>> ELSE <<AppInsightsConnectionInfoFrom(obj)>>

\* Each registered recognizer is asked about the input.
Recognize ==
    /\ codecPc = "input"
    /\ claimedBy' = {tag \in {"azAuth", "appInsights"} :
                        IF tag = "azAuth" THEN azAuthRecognizer(reordered) # <<>>
                        ELSE appInsightsRecognizer(reordered) # <<>>}
    /\ codecPc' = "recognized"
    /\ UNCHANGED <<connectionInfo, reordered, encodedToken, reorderedToken, decodedInfo,
                   inputToken, execVars, registryVars, pureVars>>

CodecNext == Encode \/ Decode \/ DecodeForeign \/ Recognize

(***************************************************************************)
(* Failure classification applied to bounded inputs                        *)
(***************************************************************************)
PureIdle ==
    /\ arg = Undefined
    /\ result = Undefined
    /\ applied = "none"

\* response.status values: absent (0), success, each status the catch block
\* names, and neighbours of the >= 500 test.
Statuses == {0, 200, 400, 401, 403, 404, 408, 429, 499, 500, 502, 503, 504}

\* Thrown values carrying an HTTP-shaped response: with and without
\* response.data.error, each message present or absent, thrown as an Error
\* (AxiosError) or as a plain object.
HttpErrors ==
    {Thrown(TRUE, TRUE, status, hasDataError, atMessage, errMessage, dataMessage,
            isError, IF isError THEN "AxiosError" ELSE Undefined, isError,
            IF isError THEN "Request failed" ELSE Undefined, Undefined) :
        status \in Statuses, hasDataError \in BOOLEAN, isError \in BOOLEAN,
        atMessage \in {Undefined, "Semantic error"},
        errMessage \in {Undefined, "Bad request"},
        dataMessage \in {Undefined, "Unauthorized"}}

\* The thrown values the catch block is applied to.
ClassifyInputs ==
    {ex \in HttpErrors : ~ex.hasDataError => ex.atMessage = Undefined /\ ex.errMessage = Undefined}
    \cup {StdError("Error", "socket hang up"),
          EngineError("Request is invalid", "Unknown table"),
          EngineError("Request is invalid", Undefined),
          Thrown(TRUE, FALSE, 0, FALSE, Undefined, Undefined, Undefined,
                 FALSE, Undefined, FALSE, Undefined, Undefined),
          Thrown(FALSE, FALSE, 0, FALSE, Undefined, Undefined, Undefined,
                 FALSE, Undefined, FALSE, Undefined, Undefined)}

ClassifyInit ==
    /\ arg \in ClassifyInputs
    /\ result = Undefined
    /\ applied = "none"

\* The catch block of executeCell applied to the thrown value.
Classify ==
    /\ applied = "none"
    /\ result' = ClassifyError(arg)
    /\ applied' = "classify"
    /\ UNCHANGED <<arg, execVars, registryVars, codecVars>>

(***************************************************************************)
(* getChartType applied to bounded inputs                                  *)
(***************************************************************************)
\* Values at ordinal 0, 1 and 2 of the first @ExtendedProperties row.
Ordinal0Values ==
    {Num("1"), Null, Str(MetaPie), Str(MetaNoViz), Str(NotJson), Str("Visualization")}
Ordinal1Values == {Str("Visualization"), Str("Cursor"), Null}
Ordinal2Values ==
    {Str(text) : text \in DOMAIN JsonObjects \cup DOMAIN JsonScalars \cup {NotJson}}
    \cup {Num("5"), Null}

\* First rows of zero to three values, and a first row that is missing.
FirstRows ==
    {<<>>, MissingRow}
    \cup {<<c0>> : c0 \in Ordinal0Values}
    \cup {<<c0, c1>> : c0 \in Ordinal0Values, c1 \in Ordinal1Values}
    \cup {<<c0, c1, c2>> : c0 \in Ordinal0Values, c1 \in Ordinal1Values, c2 \in Ordinal2Values}

\* A response with an @ExtendedProperties table of the given rows.
RespWithProps(rows) ==
    Response(TRUE, <<Table("@ExtendedProperties", rows), PrimaryTable>>,
             TRUE, <<"@ExtendedProperties", "PrimaryResult">>, FALSE, <<>>)

\* The responses getChartType is applied to: no tables, no table named
\* @ExtendedProperties, one without rows, and one for each first row.
ChartInputs ==
    {Response(TRUE, <<>>, TRUE, <<>>, FALSE, <<>>), RespPlain, RespNoTables, RespWithProps(<<>>)}
    \cup {RespWithProps(<<r0>>) : r0 \in FirstRows}

ChartInit ==
    /\ arg \in ChartInputs
    /\ result = Undefined
    /\ applied = "none"

\* getChartType applied to the response.
ClassifyChart ==
    /\ applied = "none"
    /\ result' = getChartType(arg)
    /\ applied' = "getChartType"
    /\ UNCHANGED <<arg, execVars, registryVars, codecVars>>

(***************************************************************************)
(* generateSunburstChart applied to bounded inputs                         *)
(*                                                                         *)
(* A primary table is its number of columns and its rows; a row holds the  *)
(* hierarchy values (cells) followed by the weight (an integer).           *)
(***************************************************************************)
\* value.toString() of a string or a number cell.
toString(cell) == cell.v

\* strs.join('-')
RECURSIVE JoinDash(_)
JoinDash(strs) ==
    IF Len(strs) = 0 THEN ""
    ELSE IF Len(strs) = 1 THEN strs[1]
    ELSE strs[1] \o "-" \o JoinDash(Tail(strs))

\* Array(index).fill(0).map((_, i) => row[i].toString()).join('-')
ParentLabel(row, index) == JoinDash([i \in 1 .. index |-> toString(row[i])])

\* What a row contributes for the column at index (counted from 0): lines
\* 385-386 for the first column, lines 399-405 for a deeper one.
SunburstEntry(row, index, valueColumnIndex) ==
    LET label == toString(row[index + 1])
    IN  [id |-> IF index = 0 THEN label ELSE ParentLabel(row, index) \o "-" \o label,
         label |-> label,
         parentLabel |-> IF index = 0 THEN "" ELSE ParentLabel(row, index),
         value |-> row[valueColumnIndex + 1]]

\* labelsAndValues after rows.forEach: a Map keyed by id in insertion order;
\* a row whose id is already a key adds its weight to that entry.
RECURSIVE LabelsAndValues(_, _, _, _)
LabelsAndValues(rows, index, valueColumnIndex, map) ==
    IF rows = <<>> THEN map
    ELSE LET entry == SunburstEntry(Head(rows), index, valueColumnIndex)
             at == {i \in 1 .. Len(map) : map[i].id = entry.id}
             next == IF at = {} THEN Append(map, entry)
                     ELSE [i \in 1 .. Len(map) |->
                              IF i \in at THEN [map[i] EXCEPT !.value = @ + entry.value]
                              ELSE map[i]]
         IN  LabelsAndValues(Tail(rows), index, valueColumnIndex, next)

\* columns.forEach: the entries pushed for the columns from index on.
RECURSIVE SunburstNodes(_, _, _)
SunburstNodes(rows, index, valueColumnIndex) ==
    IF index >= valueColumnIndex THEN <<>>
    ELSE LabelsAndValues(rows, index, valueColumnIndex, <<>>)
         \o SunburstNodes(rows, index + 1, valueColumnIndex)

\* generateSunburstChart: the ids, labels, parents and values handed to Plotly;
\* drawn = FALSE when it returns without drawing (two columns or fewer).
generateSunburstChart(table) ==
    LET nodes == SunburstNodes(table.rows, 0, table.columns - 1)
    IN  IF table.columns <= 2
          THEN [drawn |-> FALSE, ids |-> <<>>, labels |-> <<>>, parents |-> <<>>, values |-> <<>>]
        ELSE [drawn |-> TRUE,
              ids |-> [i \in 1 .. Len(nodes) |-> nodes[i].id],
              labels |-> [i \in 1 .. Len(nodes) |-> nodes[i].label],
              parents |-> [i \in 1 .. Len(nodes) |-> nodes[i].parentLabel],
              values |-> [i \in 1 .. Len(nodes) |-> nodes[i].value]]

\* Rows of tables of three and of four columns; hierarchy values with and
\* without dashes, and a number.
Rows3 ==
    {<<c0, c1, w>> : c0 \in {Str("A"), Str("B"), Str("A-x")},
                     c1 \in {Str("x"), Str("y"), Str("x-y"), Num("7")}, w \in {1, 2}}
Rows4 ==
    {<<c0, c1, c2, w>> : c0 \in {Str("A"), Str("A-x")}, c1 \in {Str("x"), Str("x-y")},
                         c2 \in {Str("p"), Str("q")}, w \in {1, 2}}

\* The sequences over set of length at most n.
RECURSIVE SeqsUpTo(_, _)
SeqsUpTo(set, n) ==
    IF n = 0 THEN {<<>>}
    ELSE LET shorter == SeqsUpTo(set, n - 1)
         IN  shorter \cup {Append(seq, x) : seq \in shorter, x \in set}

PrimaryResultTable(columns, rows) == [columns |-> columns, rows |-> rows]

\* Columns [region, sub, count] with rows (A,x,3), (A,y,2), (B,x,5).
RegionTable ==
    PrimaryResultTable(3, <<<<Str("A"), Str("x"), 3>>, <<Str("A"), Str("y"), 2>>,
                            <<Str("B"), Str("x"), 5>>>>)

SunburstInputs ==
    {PrimaryResultTable(3, rows) : rows \in SeqsUpTo(Rows3, MaxRows)}
    \cup {PrimaryResultTable(4, rows) : rows \in SeqsUpTo(Rows4, MaxRows)}
    \cup {RegionTable}

SunburstInit ==
    /\ arg \in SunburstInputs
    /\ result = Undefined
    /\ applied = "none"

\* renderChart's call of generateSunburstChart, made for more than two columns.
RenderSunburst ==
    /\ applied = "none"
    /\ arg.columns > 2
    /\ result' = generateSunburstChart(arg)
    /\ applied' = "sunburst"
    /\ UNCHANGED <<arg, execVars, registryVars, codecVars>>

(***************************************************************************)
(* AzureAuthenticatedConnection.getKustoClient and its token chain         *)
(*                                                                         *)
(* arg holds what each authentication method does when it is asked; result *)
(* the methods tried so far, the token obtained and whether getKustoClient *)
(* rejected; applied the position in getKustoClient / getAccessToken.      *)
(***************************************************************************)
\* What a token source does: yields a token, yields none, or throws.
SourceOutcomes == {"token", "none", "throws"}

AuthInputs ==
    [hasCluster : BOOLEAN, cli : SourceOutcomes, session : SourceOutcomes,
     inputBox : SourceOutcomes]

AuthInit ==
    /\ arg \in AuthInputs
    /\ result = [tried |-> <<>>, accessToken |-> Undefined, threw |-> FALSE]
    /\ applied = "none"

\* getKustoClient up to the call of getAccessToken: it throws when the
\* connection info has no cluster.
GetKustoClient ==
    /\ applied = "none"
    /\ IF arg.hasCluster
         THEN /\ applied' = "cli"
              /\ UNCHANGED result
       ELSE /\ applied' = "rejected"
            /\ result' = [result EXCEPT !.threw = TRUE]
    /\ UNCHANGED <<arg, execVars, registryVars, codecVars>>

\* getAccessToken, the try block around getAzureCliToken: a token is
\* returned; no token, or a throw (caught), falls through to the session.
GetAzureCliToken ==
    /\ applied = "cli"
    /\ result' = [result EXCEPT !.tried = Append(@, "cli"),
                                !.accessToken = IF arg.cli = "token" THEN "cli-token" ELSE @]
    /\ applied' = IF arg.cli = "token" THEN "builder" ELSE "session"
    /\ UNCHANGED <<arg, execVars, registryVars, codecVars>>

\* await authentication.getSession(...), outside any try block: a throw
\* rejects getAccessToken and with it getKustoClient.
GetSession ==
    /\ applied = "session"
    /\ result' = [result EXCEPT !.tried = Append(@, "session"),
                                !.accessToken = IF arg.session = "token" THEN "session-token" ELSE @,
                                !.threw = arg.session = "throws"]
    /\ applied' = CASE arg.session = "token" -> "builder"
                    [] arg.session = "none" -> "inputBox"
                    [] OTHER -> "rejected"
    /\ UNCHANGED <<arg, execVars, registryVars, codecVars>>

\* return window.showInputBox(...): the text entered, undefined when the box
\* is dismissed.
ShowInputBox ==
    /\ applied = "inputBox"
    /\ result' = [result EXCEPT !.tried = Append(@, "inputBox"),
                                !.accessToken = IF arg.inputBox = "token" THEN "typed-token" ELSE @,
                                !.threw = arg.inputBox = "throws"]
    /\ applied' = IF arg.inputBox = "throws" THEN "rejected" ELSE "builder"
    /\ UNCHANGED <<arg, execVars, registryVars, codecVars>>

\* getConnectionBuilder: with an access token the builder uses it; without
\* one the builder is set up for device code authentication.
GetConnectionBuilder ==
    /\ applied = "builder"
    /\ result' = [result EXCEPT !.tried = IF Truthy(result.accessToken) THEN @
                                          ELSE Append(@, "deviceCode")]
    /\ applied' = "client"
    /\ UNCHANGED <<arg, execVars, registryVars, codecVars>>

AuthNext ==
    \/ GetKustoClient
    \/ GetAzureCliToken
    \/ GetSession
    \/ ShowInputBox
    \/ GetConnectionBuilder

(***************************************************************************)
(* renderChart: the pie branch and the time branch                         *)
(*                                                                         *)
(* arg holds the primary result (columns: the column metadata, empty when  *)
(* the serialized table carries none; rows: arrays of cells), result what  *)
(* is handed to Plotly.                                                    *)
(***************************************************************************)
MaxColumns == 3

\* The cell of a column of the declared type, k its value within the column.
RenderCell(type, ordinal, k) == [t |-> type, c |-> ordinal, v |-> k]

\* item[i] of a row array: undefined outside the array.
NoCell == [t |-> "undefined", c |-> 0, v |-> 0]
CellAt(row, i) == IF i + 1 \in 1 .. Len(row) THEN row[i + 1] ELSE NoCell

\* The column metadata of a table whose columns have these types: ordinal is
\* the position of the column.
ColumnsOf(types) == [i \in 1 .. Len(types) |-> [type |-> types[i], ordinal |-> i - 1]]

\* The row k of a table: its cells have the value k in the columns of even
\* ordinal and count down in the others, so that the columns order the rows
\* differently.
RowOf(types, k) ==
    [i \in 1 .. Len(types) |->
        RenderCell(types[i], i - 1, IF (i - 1) % 2 = 0 THEN k ELSE MaxRows + 1 - k)]

\* The tables over the given column types: with and without column metadata,
\* rows in every order.
TablesOver(typeSet) ==
    {[columns |-> IF metadata THEN ColumnsOf(types) ELSE <<>>,
      rows |-> [r \in 1 .. Len(ks) |-> RowOf(types, ks[r])]] :
        types \in SeqsUpTo(typeSet, MaxColumns) \ {<<>>},
        metadata \in BOOLEAN,
        ks \in SeqsUpTo(1 .. MaxRows, MaxRows)}

\* columns.find((item) => item.type === type), as a sequence of at most one.
FindColumn(columns, type) ==
    LET idx == {i \in 1 .. Len(columns) : columns[i].type = type}
    IN  IF idx = {} THEN <<>> ELSE <<columns[CHOOSE i \in idx : \A j \in idx : i <= j]>>

\* find(...)?.ordinal || fallback: the fallback also when the ordinal is 0.
OrdinalOr(found, fallback) ==
    IF found # <<>> /\ found[1].ordinal # 0 THEN found[1].ordinal ELSE fallback

\* The pie branch: valuesColumnIndex and pieData; sunburst tells whether
\* generateSunburstChart is called as well.
renderPie(table) ==
    LET columns == table.columns
        rows == table.rows
        valuesColumnIndex ==
            IF Len(columns) > 0
              THEN OrdinalOr(FindColumn(Reversed(columns), "long"), Len(columns) - 1)
            ELSE IF Len(rows) > 0 /\ Len(rows[1]) > 1 THEN Len(rows[1]) - 1 ELSE 1
    IN  [valuesColumnIndex |-> valuesColumnIndex,
         labels |-> [r \in 1 .. Len(rows) |-> CellAt(rows[r], 0)],
         values |-> [r \in 1 .. Len(rows) |-> CellAt(rows[r], valuesColumnIndex)],
         sunburst |-> Len(columns) > 2]

PieInputs == TablesOver({"long", "string"})

PieInit ==
    /\ arg \in PieInputs
    /\ result = Undefined
    /\ applied = "none"

\* renderChart for chartType.type === 'pie'.
RenderPie ==
    /\ applied = "none"
    /\ result' = renderPie(arg)
    /\ applied' = "pie"
    /\ UNCHANGED <<arg, execVars, registryVars, codecVars>>

\* What a sort comparator computes from a cell: a number, or NaN.
NaN == [valid |-> FALSE, n |-> 0]
Number(n) == [valid |-> TRUE, n |-> n]

\* new Date(cell).getTime(): a datetime string and a number give a time, a
\* timespan string, a name and undefined give NaN.
DateTime(cell) == IF cell.t \in {"datetime", "real", "long"} THEN Number(cell.v) ELSE NaN

\* new Date(`0001-01-01T${cell}`).getTime(): a time only for a timespan string.
TimeOfDay(cell) == IF cell.t = "timespan" THEN Number(cell.v) ELSE NaN

\* The operand of a[i] - b[i]: a number for numbers, NaN for the strings of
\* the other column types and for undefined.
Numeric(cell) == IF cell.t \in {"real", "long"} THEN Number(cell.v) ELSE NaN

\* The value of a cell, whatever the type of its column.
ValueOf(cell) == Number(cell.v)

\* The operand a comparator computes from a cell.
KeyOf(comparator, cell) ==
    CASE comparator = "date" -> DateTime(cell)
      [] comparator = "time" -> TimeOfDay(cell)
      [] comparator = "number" -> Numeric(cell)
      [] OTHER -> ValueOf(cell)

\* Array.prototype.sort with the comparator key(a[index]) - key(b[index]):
\* stable and ascending; a comparator that yields NaN counts as 0, so the
\* order is kept when no cell of the column gives a number.
SortedBy(rows, index, comparator) ==
    LET k(r) == KeyOf(comparator, CellAt(rows[r], index))
        Before(i, j) == k(i).n < k(j).n \/ (k(i).n = k(j).n /\ i < j)
        Rank(j) == Cardinality({i \in 1 .. Len(rows) : Before(i, j)}) + 1
    IN  IF \E r \in 1 .. Len(rows) : ~k(r).valid THEN rows
        ELSE [r \in 1 .. Len(rows) |-> rows[CHOOSE j \in 1 .. Len(rows) : Rank(j) = r]]

\* seriesValues after sortedData.forEach(...): the series in the order of
\* their first row, each with its x and y.
RECURSIVE SeriesValues(_, _, _, _, _)
SeriesValues(series, rows, nameIndex, xIndex, yIndex) ==
    IF rows = <<>> THEN series
    ELSE LET row == Head(rows)
             seriesName == CellAt(row, nameIndex)
             at == {i \in 1 .. Len(series) : series[i].name = seriesName}
             next ==
                 IF at = {}
                   THEN Append(series, [named |-> TRUE, name |-> seriesName,
                                        x |-> <<CellAt(row, xIndex)>>,
                                        y |-> <<CellAt(row, yIndex)>>])
                 ELSE [i \in 1 .. Len(series) |->
                          IF i \in at
                            THEN [series[i] EXCEPT !.x = Append(@, CellAt(row, xIndex)),
                                                   !.y = Append(@, CellAt(row, yIndex))]
                          ELSE series[i]]
         IN  SeriesValues(next, Tail(rows), nameIndex, xIndex, yIndex)

\* columns.find((col) => col.type is none of string, datetime, timespan, real)
FindValueColumn(columns) ==
    LET idx == {i \in 1 .. Len(columns) :
                   columns[i].type \notin {"string", "datetime", "timespan", "real"}}
    IN  IF idx = {} THEN <<>> ELSE <<columns[CHOOSE i \in idx : \A j \in idx : i <= j]>>

\* The time branch: the three sort passes, all on the column dateColumnIndex,
\* then the series. The three indexes are never negative, so every pass runs
\* and the early return is never taken.
renderTime(table) ==
    LET columns == table.columns
        dateColumnIndex == OrdinalOr(FindColumn(columns, "datetime"), 0)
        byDate == SortedBy(table.rows, dateColumnIndex, "date")
        byTime == SortedBy(byDate, dateColumnIndex, "time")
        sortedData == SortedBy(byTime, dateColumnIndex, "number")
        columnIndexWithSeriesName == OrdinalOr(FindColumn(columns, "string"), 1)
        lastColumn == columns[Len(columns)]
        columnIndexWithValue ==
            IF lastColumn.type = "long" THEN lastColumn.ordinal
            ELSE OrdinalOr(FindValueColumn(columns), 2)
    IN  [sortedData |-> sortedData,
         plotData |->
             IF Len(columns) > 2
               THEN SeriesValues(<<>>, sortedData, columnIndexWithSeriesName,
                                 dateColumnIndex, columnIndexWithValue)
             ELSE <<[named |-> FALSE, name |-> NoCell,
                     x |-> [r \in 1 .. Len(sortedData) |-> CellAt(sortedData[r], 0)],
                     y |-> [r \in 1 .. Len(sortedData) |-> CellAt(sortedData[r], 1)]]>>]

TimeInputs == TablesOver({"datetime", "timespan", "real", "string", "long"})

TimeInit ==
    /\ arg \in TimeInputs
    /\ result = Undefined
    /\ applied = "none"

\* renderChart for chartType.type === 'time'.
RenderTime ==
    /\ applied = "none"
    /\ result' = renderTime(arg)
    /\ applied' = "time"
    /\ UNCHANGED <<arg, execVars, registryVars, codecVars>>

(***************************************************************************)
(* Activation: KernelProvider.register                                     *)
(*                                                                         *)
(* arg holds the last-used connections, result the registry as activation  *)
(* left it, applied = "register" once activation has run.                  *)
(***************************************************************************)
MaxLastUsed == 1

\* getLastUsedControllerConnections(): the connections recorded as last used.
getLastUsedControllerConnections == SeqsUpTo(Connections, MaxLastUsed)

\* registerController(notebookType, connection) as a function of the registry
\* [live, all]: the registry after the call.
Registered(registry, notebookType, connection) ==
    LET controllerId == getControllerId(connection, notebookType)
        existing == ExistingController(registry.live, controllerId, notebookType)
        controller == KernelPerConnection(Len(registry.all) + 1, notebookType, connection)
    IN  IF existing # <<>> THEN registry
        ELSE [live |-> Append(registry.live, controller),
              all |-> Append(registry.all, controller)]

\* lastUsedConnection.forEach(...): the three registerController calls for
\* each connection, in order.
RECURSIVE RegisterEach(_, _)
RegisterEach(registry, lastUsedConnection) ==
    IF lastUsedConnection = <<>> THEN registry
    ELSE LET connection == Head(lastUsedConnection)
             one == Registered(registry, KustoNotebook, connection)
             two == Registered(one, KustoNotebookKql, connection)
             three == Registered(two, InteractiveWindowView, connection)
         IN  RegisterEach(three, Tail(lastUsedConnection))

\* KernelProvider.register(), called once by activate, on the empty registry
\* of the freshly loaded module.
Register(lastUsedConnection) ==
    /\ applied = "none"
    /\ LET registry == RegisterEach([live |-> registeredControllers, all |-> allControllers],
                                    lastUsedConnection)
       IN  /\ registeredControllers' = registry.live
           /\ allControllers' = registry.all
           /\ result' = registry
    /\ arg' = lastUsedConnection
    /\ applied' = "register"
    /\ returned' = 0
    /\ removed' = {}
    /\ UNCHANGED disposed
    /\ UNCHANGED <<execVars, codecVars>>

\* Activation first; registerController calls and connection-changed events
\* follow it.
ActivationNext ==
    \/ \E lastUsedConnection \in getLastUsedControllerConnections : Register(lastUsedConnection)
    \/ applied = "register" /\ RegistryNext

(***************************************************************************)
(* Specifications                                                          *)
(***************************************************************************)
Init == ExecInit /\ RegistryInit /\ CodecIdle /\ PureIdle

Next == ExecNext

Spec == Init /\ [][Next]_vars

\* The execution engine with a host whose tokens may also fire late.
NextLateCancel == ExecNext \/ \E c \in Cells : CancelLate(c)

SpecLateCancel == Init /\ [][NextLateCancel]_vars

SpecRegistry == Init /\ [][RegistryNext]_vars

InitCodec == ExecInit /\ RegistryInit /\ CodecInit /\ PureIdle

InitClassify == ExecInit /\ RegistryInit /\ CodecIdle /\ ClassifyInit

SpecClassify == InitClassify /\ [][Classify]_vars

InitChart == ExecInit /\ RegistryInit /\ CodecIdle /\ ChartInit

SpecChart == InitChart /\ [][ClassifyChart]_vars

InitPie == ExecInit /\ RegistryInit /\ CodecIdle /\ PieInit

SpecPie == InitPie /\ [][RenderPie]_vars

InitTime == ExecInit /\ RegistryInit /\ CodecIdle /\ TimeInit

SpecTime == InitTime /\ [][RenderTime]_vars

SpecActivation == Init /\ [][ActivationNext]_vars

InitAuth == ExecInit /\ RegistryInit /\ CodecIdle /\ AuthInit

SpecAuth == InitAuth /\ [][AuthNext]_vars

InitSunburst == ExecInit /\ RegistryInit /\ CodecIdle /\ SunburstInit

SpecSunburst == InitSunburst /\ [][RenderSunburst]_vars

SpecCodec == InitCodec /\ [][CodecNext]_vars

(***************************************************************************)
(* Claims about the execution engine                                       *)
(***************************************************************************)
\* The executeCell invocation for c has run to its end (returned or thrown).
Completed(c) == pc[c] \in {"done", "rejected"}

\* The invocation never got a client: it left before task.start.
SetupFailure(c) == Completed(c) /\ task[c].startCount = 0

\* The invocation reached the race and the token fired before the query
\* promise settled.
CancelledBeforeSettle(c) ==
    pc[c] = "done" /\ task[c].startCount = 1 /\ token[c] /\ c \notin lateCancel

HasErrorArtifact(t) == \E i \in 1 .. Len(t.appended) : t.appended[i].mime = MimeError

\* C1: every invocation of executeCell that has run to its end has ended its
\* task exactly once, on every path (success, cancellation, query error, no
\* client, Client.create throwing).
C1_TaskEndedExactlyOnce ==
    \A c \in Cells :
        /\ task[c].endCount <= 1
        /\ Completed(c) => task[c].state = "ended" /\ task[c].endCount = 1

\* C2: when the token fires before the execute promise settles, the task ends
\* with success = false and the execution appends no output artifact.
C2_CancelEndsUnsuccessfulNoOutput ==
    \A c \in Cells :
        CancelledBeforeSettle(c) =>
            /\ task[c].state = "ended"
            /\ task[c].endCount = 1
            /\ ~task[c].success
            /\ task[c].appended = <<>>
            /\ outputs[c] = <<>>

C2_Witness ==
    \E c \in Cells :
        /\ CancelledBeforeSettle(c)
        /\ task[c].state = "ended"
        /\ query[c].state = "rejected"

\* C3: no failure of a cell's execution is thrown out of executeCell, so the
\* fan-out of execute / executeInteractive never rejects.
C3_NoFailureEscapesExecuteCell ==
    /\ \A c \in Cells : pc[c] # "rejected"
    /\ fanout.status # "rejected"

\* C4: an execution that appended an error artifact ends its task with
\* success = false.
C4_ErrorArtifactMeansUnsuccessful ==
    \A c \in Cells :
        (task[c].state = "ended" /\ HasErrorArtifact(task[c])) => ~task[c].success

C6_SetupFailureEndsSilently ==
    \A c \in Cells :
        SetupFailure(c) =>
            /\ task[c].state = "ended"
            /\ ~task[c].success
            /\ task[c].appended = <<>>

\* C7: each cell's output list holds only artifacts built by that cell's own
\* execution, and a cell's outputs change only in a step of its own execution.
C7_OutputsAreTheCellsOwn ==
    /\ [](\A c \in Cells : \A i \in 1 .. Len(outputs[c]) : outputs[c][i].by = c)
    /\ [][\A c \in Cells : outputs'[c] # outputs[c] =>
              (pc[c] \in {"create", "race"} /\ pc'[c] # pc[c])]_vars

C7_Witness ==
    /\ fanout.cells = Cells
    /\ \A c \in Cells : pc[c] = "done" /\ Len(outputs[c]) = 1 /\ task[c].startCount = 1
    /\ \E c, d \in Cells : c # d /\ outputs[c][1].mime # outputs[d][1].mime

(***************************************************************************)
(* Claims about the controller registry                                    *)
(***************************************************************************)
\* The controller's key is (notebookType, encode(connection)).
HasKeyOf(controller, notebookType, connection) ==
    /\ controller.notebookType = notebookType
    /\ EncodedConnection[controller.connection] = EncodedConnection[connection]

\* The controller's key embeds the connection, whatever the notebook type.
Embeds(controller, connection) ==
    EncodedConnection[controller.connection] = EncodedConnection[connection]

IsLive(controllers, instance) ==
    \E i \in 1 .. Len(controllers) : controllers[i].instance = instance

\* C8: the live set holds at most one controller per key (notebookType,
\* encode(connection)), and a registerController call whose key is present
\* returns that controller and constructs nothing.
C8_RegisterControllerIdempotent ==
    /\ [](\A i, j \in 1 .. Len(registeredControllers) :
              i # j => ~HasKeyOf(registeredControllers[i],
                                 registeredControllers[j].notebookType,
                                 registeredControllers[j].connection))
    /\ [][\A notebookType \in NotebookTypes, connection \in Connections :
              \A i \in 1 .. Len(registeredControllers) :
                  (/\ RegisterController(notebookType, connection)
                   /\ HasKeyOf(registeredControllers[i], notebookType, connection))
                  => /\ returned' = registeredControllers[i].instance
                     /\ UNCHANGED <<registeredControllers, allControllers, disposed>>]_vars

\* A call has returned a controller that an earlier call constructed, with
\* another controller constructed in between.
C8_Witness ==
    /\ Len(allControllers) = 2
    /\ returned = 1
    /\ IsLive(registeredControllers, 1)
    /\ IsLive(registeredControllers, 2)

\* C9: a handled 'removed' event for connection c leaves every controller whose
\* key embeds c (for every notebook type) disposed and absent from the live set.
C9_RemovedConnectionTearsDownAll ==
    [][\A connection \in Connections :
          ConnectionChanged(connection, "removed") =>
              \A i \in 1 .. Len(allControllers) :
                  Embeds(allControllers[i], connection) =>
                      /\ allControllers[i].instance \in disposed'
                      /\ ~IsLive(registeredControllers', allControllers[i].instance)]_vars

\* One event has removed two controllers: the same connection under two
\* notebook types.
C9_Witness ==
    /\ Cardinality(removed) >= 2
    /\ removed \subseteq disposed
    /\ \E i, j \in removed :
          /\ allControllers[i].notebookType # allControllers[j].notebookType
          /\ Embeds(allControllers[i], allControllers[j].connection)
    /\ \A i \in removed : ~IsLive(registeredControllers, i)

(***************************************************************************)
(* Claims about the connection codec                                       *)
(***************************************************************************)
\* Two objects read the same: every property of either has the same value in
\* both (a property that is absent reads undefined).
SameInfo(a, b) ==
    \A i \in 1 .. Len(a \o b) : Get(a, (a \o b)[i].key) = Get(b, (a \o b)[i].key)

\* C10: decodeConnectionInfo(encodeConnectionInfo(x)) reads the same as x for
\* every ConnectionInfo x of either variant, and encodeConnectionInfo yields
\* the same token whatever the insertion order of the properties.
C10_RoundTripAndOrderIndependence ==
    /\ codecPc \in {"encoded", "decoded"} => encodedToken = reorderedToken
    /\ codecPc = "decoded" => ~decodedInfo.threw /\ SameInfo(decodedInfo.value, connectionInfo)

\* An azAuth value whose database needs UTF-8 bytes, inserted in another
\* order, has been encoded and decoded.
C10_Witness ==
    /\ codecPc = "decoded"
    /\ reordered # connectionInfo
    /\ Get(connectionInfo, KeyType).value = TypeAzAuth
    /\ Get(connectionInfo, KeyDatabase) = Prop(KeyDatabase, <<EAcute>>)
    /\ Get(decodedInfo.value, KeyDatabase) = Prop(KeyDatabase, <<EAcute>>)

\* C11: decodeConnectionInfo returns a value only for a token that equals the
\* re-encoding of what it decodes to; any other token is rejected.
C11_DecodeRejectsNonCanonicalToken ==
    codecPc = "foreign" /\ ~decodedInfo.threw
        => encodeConnectionInfo(decodedInfo.value) = inputToken

\* C12: every ConnectionInfo is claimed by exactly one of the two registered
\* recognizers, never by both and never by neither.
C12_ExactlyOneRecognizerClaims ==
    codecPc = "recognized" => Cardinality(claimedBy) = 1

\* An appInsights value, or an azAuth value without a database property, has
\* been put to the recognizers and claimed by the recognizer of its variant.
C12_Witness ==
    /\ codecPc = "recognized"
    /\ \/ claimedBy = {"appInsights"} /\ Get(connectionInfo, KeyType).value = TypeAppInsights
       \/ claimedBy = {"azAuth"} /\ ~HasKey(connectionInfo, KeyDatabase)

(***************************************************************************)
(* Claims about normalization and failure classification                   *)
(***************************************************************************)
\* The elements of a sequence.
Range(seq) == {seq[i] : i \in 1 .. Len(seq)}

\* Cell c's query resolved with a response that has a table named
\* PrimaryResult, and executeCell displayed it.
DisplayedPrimary(c) ==
    /\ pc[c] = "done"
    /\ query[c].state = "resolved"
    /\ Len(outputs[c]) = 1
    /\ outputs[c][1].mime # MimeError
    /\ query[c].value.hasTables
    /\ \E t \in Range(query[c].value.tables) : t.name = "PrimaryResult"

C14_HttpStatusNamesTheError ==
    applied = "classify" /\ arg.isObject /\ arg.hasResponse =>
        result.name =
            CASE arg.status = 400 -> "Invalid Query"
              [] arg.status \in {401, 403} -> "Authentication Error"
              [] arg.status \in {408, 504} -> "Query Timeout"
              [] arg.status >= 500 /\ arg.status # 504 -> "Server Error"
              [] OTHER -> "Query Error"

\* An AxiosError, a standard Error object, with status 504 was classified.
C14_Witness ==
    /\ applied = "classify"
    /\ arg.isObject /\ arg.hasResponse /\ arg.isError
    /\ arg.status = 504
    /\ result.name = "Query Timeout"

\* The first present of the three message sources of an HTTP-shaped error,
\* Undefined when none is present.
FirstPresentMessage(ex) ==
    IF ex.hasDataError /\ ex.atMessage # Undefined THEN ex.atMessage
    ELSE IF ex.hasDataError /\ ex.errMessage # Undefined THEN ex.errMessage
    ELSE ex.dataMessage

\* C15: the message of an HTTP-shaped error is the first present of
\* response.data.error['@message'], response.data.error.message and
\* response.data.message, and a non-empty default when none is present.
C15_MessagePreferenceOrder ==
    applied = "classify" /\ arg.isObject /\ arg.hasResponse =>
        /\ result.message # ""
        /\ FirstPresentMessage(arg) # Undefined => result.message = FirstPresentMessage(arg)
        /\ FirstPresentMessage(arg) = Undefined => result.message = DefaultErrorMessage

(***************************************************************************)
(* Claims about visualization inference                                    *)
(***************************************************************************)
\* getChartType was applied to a response whose @ExtendedProperties table has
\* a first row (not a missing one).
ClassifiedFirstRow ==
    /\ applied = "getChartType"
    /\ arg.hasTables
    /\ Len(arg.tables) > 0
    /\ arg.tables[1].name = "@ExtendedProperties"
    /\ Len(arg.tables[1].rows) > 0
    /\ arg.tables[1].rows[1] # MissingRow

\* The first row of the @ExtendedProperties table of the response.
FirstRow == arg.tables[1].rows[1]

\* C16: for every first @ExtendedProperties row whose ordinal-2 value is
\* {"Visualization":"piechart","Title":"T"} the decision is pie with title T,
\* whatever the values at ordinals 0 and 1 are.
C16_Ordinal2PieMetadataGivesPie ==
    ClassifiedFirstRow /\ At(FirstRow, 2) = Str(MetaPie) => result = Chart("pie", "T", "")

\* The decision the claim C17 gives for a metadata object.
ExpectedChart(meta) ==
    LET title == IF meta.Title = Undefined THEN "" ELSE meta.Title
    IN  CASE meta.Visualization = "piechart" -> Chart("pie", title, "")
          [] meta.Visualization = "barchart" -> Chart("bar", title, "h")
          [] meta.Visualization = "columnchart" -> Chart("bar", title, "v")
          [] meta.Visualization = "timechart" -> Chart("time", title, "")
          [] meta.Visualization = "linechart" -> Chart("time", title, "")
          [] OTHER -> NoChart

\* C17: the decision is a function of the metadata's Visualization value:
\* piechart pie, barchart bar (horizontal), columnchart bar (vertical),
\* timechart and linechart time, titled by the metadata Title or '' when it is
\* absent or null; any other value, an empty tables list and a response without
\* a table named @ExtendedProperties give none.
C17_DecisionFollowsVisualization ==
    /\ ClassifiedFirstRow /\ At(FirstRow, 2).t = "string" /\ At(FirstRow, 2).v \in DOMAIN JsonObjects
         => result = ExpectedChart(JsonObjects[At(FirstRow, 2).v])
    /\ applied = "getChartType" /\ arg.hasTables /\ FindTable(arg.tables, "@ExtendedProperties") = <<>>
         => result = NoChart

\* C18: getChartType never throws; for every response shape it returns a
\* decision.
C18_InferenceNeverThrows ==
    applied = "getChartType" => ~result.threw

(***************************************************************************)
(* Claims about the sunburst                                               *)
(***************************************************************************)
\* The stringified hierarchy values of a row through depth d.
PathPrefix(row, d) == [i \in 1 .. d + 1 |-> toString(row[i])]

\* The distinct path prefixes of a table, of every depth.
PathPrefixes(table) ==
    {PathPrefix(table.rows[r], d) : r \in 1 .. Len(table.rows), d \in 0 .. table.columns - 2}

\* The sum of the weights of the rows whose path starts with prefix.
RECURSIVE WeightOf(_, _)
WeightOf(rows, prefix) ==
    IF rows = <<>> THEN 0
    ELSE (IF PathPrefix(Head(rows), Len(prefix) - 1) = prefix
            THEN Head(rows)[Len(Head(rows))] ELSE 0)
         + WeightOf(Tail(rows), prefix)

\* Node k of the output.
NodeAt(k) ==
    [id |-> result.ids[k], label |-> result.labels[k], parent |-> result.parents[k],
     value |-> result.values[k]]

\* C19: the sunburst has one node per distinct path prefix of each depth: its
\* id is the dash-joined path, its label the last value of the path, its
\* parent the dash-joined path of the prior depth ('' at depth 0) and its value
\* the sum of the weights of the rows sharing that exact path.
C19_OneNodePerPathPrefix ==
    applied = "sunburst" =>
        /\ result.drawn
        /\ Len(result.ids) = Cardinality(PathPrefixes(arg))
        /\ \A prefix \in PathPrefixes(arg) :
               \E k \in 1 .. Len(result.ids) :
                   NodeAt(k) = [id |-> JoinDash(prefix),
                                label |-> prefix[Len(prefix)],
                                parent |-> JoinDash(SubSeq(prefix, 1, Len(prefix) - 1)),
                                value |-> WeightOf(arg.rows, prefix)]

\* The sum of the values of the nodes from k on whose parent is id.
RECURSIVE ChildrenSum(_, _)
ChildrenSum(id, k) ==
    IF k > Len(result.ids) THEN 0
    ELSE (IF result.parents[k] = id THEN result.values[k] ELSE 0) + ChildrenSum(id, k + 1)

\* C20: in every sunburst the values of the children of a node sum to the
\* node's own value, and every non-empty parent names an id of the output,
\* also when hierarchy values contain dashes.
C20_ChildrenSumToParent ==
    applied = "sunburst" =>
        \A k \in 1 .. Len(result.ids) :
            /\ (\E j \in 1 .. Len(result.ids) : result.parents[j] = result.ids[k])
                   => ChildrenSum(result.ids[k], 1) = result.values[k]
            /\ result.parents[k] # "" => \E j \in 1 .. Len(result.ids) : result.ids[j] = result.parents[k]

\* C29: the node ids of a sunburst are pairwise distinct, and two rows map to
\* the same node at a depth only if they agree on every hierarchy column up to
\* that depth: distinct paths never share a dash-joined id.
C29_DistinctPathsDistinctNodes ==
    applied = "sunburst" =>
        /\ \A i, j \in 1 .. Len(result.ids) : i # j => result.ids[i] # result.ids[j]
        /\ \A p, q \in PathPrefixes(arg) : JoinDash(p) = JoinDash(q) => p = q

(***************************************************************************)
(* Claims about the pie chart and the time chart                           *)
(***************************************************************************)
\* The ordinal of the rightmost column declared 'long', or the last column.
RightmostLongOrLast(columns) ==
    LET long == {i \in 1 .. Len(columns) : columns[i].type = "long"}
    IN  IF long = {} THEN Len(columns) - 1
        ELSE columns[CHOOSE i \in long : \A j \in long : j <= i].ordinal

\* C26: the value column of the pie is the rightmost column declared 'long'
\* whenever column metadata exists and some column is 'long', at every
\* position of that column, ordinal 0 included, and the last column otherwise;
\* labels are column 0 and values the chosen column of every row, in row order.
C26_PieValuesFromRightmostLong ==
    applied = "pie" =>
        LET chosen == IF Len(arg.columns) > 0 THEN RightmostLongOrLast(arg.columns)
                      ELSE IF arg.rows = <<>> THEN result.valuesColumnIndex
                      ELSE Len(arg.rows[1]) - 1
        IN  /\ result.valuesColumnIndex = chosen
            /\ Len(result.labels) = Len(arg.rows)
            /\ Len(result.values) = Len(arg.rows)
            /\ \A r \in 1 .. Len(arg.rows) :
                  /\ result.labels[r] = CellAt(arg.rows[r], 0)
                  /\ result.values[r] = CellAt(arg.rows[r], chosen)

\* The temporal key column by priority: the declared datetime column, else
\* the declared timespan column, else the declared 'real' column.
TemporalKeyColumn(columns) ==
    IF FindColumn(columns, "datetime") # <<>> THEN FindColumn(columns, "datetime")
    ELSE IF FindColumn(columns, "timespan") # <<>> THEN FindColumn(columns, "timespan")
    ELSE FindColumn(columns, "real")

\* C27: the time chart sorts the rows stably in ascending order of one
\* temporal key chosen by priority (datetime, else timespan, else real), read
\* from the chosen column's own ordinal wherever that column sits; keys of
\* lower priority do not reorder the rows.
C27_SortedByTemporalKey ==
    (applied = "time" /\ TemporalKeyColumn(arg.columns) # <<>>) =>
        result.sortedData = SortedBy(arg.rows, TemporalKeyColumn(arg.columns)[1].ordinal, "value")

\* The number of rows whose cell at index is the given one.
RowsNamed(rows, index, cell) ==
    Cardinality({r \in 1 .. Len(rows) : CellAt(rows[r], index) = cell})

\* C28: with more than two columns the rows of a time chart are grouped into
\* named series by the first declared string column, at every ordinal of that
\* column, ordinal 0 included; x and y of a series are of equal length and each
\* row gives one point to one series; with exactly two columns one unnamed
\* series has column 0 as x and column 1 as y.
C28_SeriesByFirstStringColumn ==
    applied = "time" =>
        /\ (Len(arg.columns) > 2 /\ FindColumn(arg.columns, "string") # <<>>) =>
              LET nameIndex == FindColumn(arg.columns, "string")[1].ordinal
                  plotData == result.plotData
              IN  /\ \A i \in 1 .. Len(plotData) :
                        /\ plotData[i].named
                        /\ Len(plotData[i].x) = Len(plotData[i].y)
                        /\ Len(plotData[i].x)
                               = RowsNamed(result.sortedData, nameIndex, plotData[i].name)
                        /\ \A j \in 1 .. Len(plotData) :
                               plotData[j].name = plotData[i].name => i = j
                  /\ \A r \in 1 .. Len(result.sortedData) :
                        \E i \in 1 .. Len(plotData) :
                            plotData[i].name = CellAt(result.sortedData[r], nameIndex)
        /\ Len(arg.columns) = 2 =>
              result.plotData
                  = <<[named |-> FALSE, name |-> NoCell,
                       x |-> [r \in 1 .. Len(arg.rows) |-> CellAt(result.sortedData[r], 0)],
                       y |-> [r \in 1 .. Len(arg.rows) |-> CellAt(result.sortedData[r], 1)]]>>

(***************************************************************************)
(* Claims about the token chain                                            *)
(***************************************************************************)
\* C21: in the token chain a throw of the CLI step or of the session step is
\* caught and the chain proceeds; only a failure of the manual-entry step
\* rejects getKustoClient.
C21_OnlyManualEntryFailureIsTerminal ==
    applied = "rejected" /\ arg.hasCluster =>
        result.tried[Len(result.tried)] = "inputBox"

\* The authentication methods in the documented order.
DocumentedSequence == <<"cli", "session", "deviceCode", "inputBox">>

\* C22: the authentication methods are tried in the documented sequence, each
\* only after all earlier ones failed: Azure CLI, VS Code authentication, device
\* code, manual access token.
C22_MethodsTriedInDocumentedOrder ==
    /\ Len(result.tried) <= Len(DocumentedSequence)
    /\ result.tried = SubSeq(DocumentedSequence, 1, Len(result.tried))

(***************************************************************************)
(* Claims about the two racing events                                      *)
(***************************************************************************)
Displayed(c) ==
    /\ pc[c] = "done" /\ task[c].success
    /\ Len(outputs[c]) = 1 /\ outputs[c][1].mime # MimeError

\* C23: the engine acts on exactly one of the two racing events. Once the
\* token has fired before the query promise settled, a later resolution or
\* rejection of the query promise appends no output and leaves the ended task
\* as it is; once a result has been displayed, a later firing of the token
\* neither retracts it nor ends the task again.
C23_OnlyTheFirstEventIsActedOn ==
    [][\A c \in Cells :
          /\ (/\ CancelledBeforeSettle(c)
              /\ query[c].state = "pending"
              /\ query'[c].state \in {"resolved", "rejected"})
                => /\ task'[c] = task[c]
                   /\ outputs'[c] = outputs[c]
                   /\ outputs'[c] = <<>>
                   /\ pc'[c] = pc[c]
          /\ (Displayed(c) /\ ~token[c] /\ token'[c])
                => /\ task'[c] = task[c]
                   /\ task'[c].endCount = 1
                   /\ outputs'[c] = outputs[c]
                   /\ pc'[c] = pc[c]]_vars

C23_Witness ==
    /\ \E c \in Cells :
        /\ CancelledBeforeSettle(c)
        /\ query[c].state = "resolved"
        /\ task[c].endCount = 1 /\ outputs[c] = <<>>
    /\ \E c \in Cells :
        /\ Displayed(c)
        /\ c \in lateCancel
        /\ task[c].endCount = 1

\* C24: every task that is ended was started first: on every path of
\* executeCell, the setup-failure path included, the start is recorded and the
\* prior output cleared before the task is ended.
C24_EndedTaskWasStarted ==
    \A c \in Cells :
        task[c].state = "ended" =>
            /\ task[c].startCount = 1
            /\ outputs[c] = task[c].appended

(***************************************************************************)
(* Further claims about the controller registry                            *)
(***************************************************************************)
\* C25: a connection-changed event changes the live set only by removing the
\* controllers of the removed connection: an 'added' event leaves the set as
\* it is, and a 'removed' event for connection c leaves live and undisposed
\* every controller whose key embeds another connection, one with the id
\* (cluster) of c and another database included.
C25_OnlyTheRemovedConnectionIsTornDown ==
    [][\A connection \in Connections :
          /\ ConnectionChanged(connection, "added") =>
                UNCHANGED <<registeredControllers, disposed>>
          /\ ConnectionChanged(connection, "removed") =>
                \A i \in 1 .. Len(registeredControllers) :
                    ~Embeds(registeredControllers[i], connection) =>
                        /\ IsLive(registeredControllers', registeredControllers[i].instance)
                        /\ registeredControllers[i].instance \notin disposed']_vars

\* C30: after activation the live set holds, for every last-used connection
\* and each of the three notebook types, a controller with that key; after a
\* 'removed' event tore a connection's controllers down, a later
\* registerController for the same key constructs a fresh controller; the live
\* set never contains a disposed controller.
C30_ActivationRegistersAndDisposedNeverLive ==
    /\ [](\A i \in 1 .. Len(registeredControllers) :
              registeredControllers[i].instance \notin disposed)
    /\ [][\A lastUsedConnection \in getLastUsedControllerConnections :
              Register(lastUsedConnection) =>
                  \A i \in 1 .. Len(lastUsedConnection), notebookType \in NotebookTypes :
                      \E j \in 1 .. Len(registeredControllers') :
                          HasKeyOf(registeredControllers'[j], notebookType,
                                   lastUsedConnection[i])]_vars
    /\ [][\A notebookType \in NotebookTypes, connection \in Connections :
              (/\ applied = "register"
               /\ RegisterController(notebookType, connection)
               /\ \E i \in disposed : HasKeyOf(allControllers[i], notebookType, connection))
              => /\ returned' \notin disposed'
                 /\ IsLive(registeredControllers', returned')
                 /\ HasKeyOf(allControllers'[returned'], notebookType, connection)]_vars

\* Activation registered three controllers, a 'removed' event disposed them,
\* and a later registerController constructed a fresh one for a disposed key.
C30_Witness ==
    /\ applied = "register"
    /\ Len(arg) >= 1
    /\ Len(result.all) = 3
    /\ {1, 2, 3} \subseteq disposed
    /\ returned > 3
    /\ IsLive(registeredControllers, returned)
    /\ \E i \in disposed :
          HasKeyOf(allControllers[i], allControllers[returned].notebookType,
                   allControllers[returned].connection)

====
